---- MODULE Spec2Model ----
(***************************************************************************)
(* Indoor navigation core of morris-indoor-3d-map:                         *)
(*   src/src/utils/pathfinding.js        room index, graph builder, A*,    *)
(*                                       path enhancer (findRoute)         *)
(*   src/src/components/RoutePlanner.jsx directions generator and route    *)
(*                                       statistics                        *)
(*   src/src/components/DirectionsPanel.jsx the step index of the panel    *)
(*                                                                         *)
(* Numbers.  JavaScript doubles are modelled by integers:                  *)
(*   - a coordinate is a whole number of units of 1/600000 degree, so that *)
(*     0.001 degree = 600 units and every threshold of the code is a whole *)
(*     number of units;                                                    *)
(*   - an edge weight, a g-score and an f-score are in tenths of a unit,   *)
(*     so that the multipliers 0.8, 0.9, 1.2 and 2 are 8, 9, 12 and 20;    *)
(*   - a Haversine distance is in millimetres; near latitude 0 one unit is *)
(*     6371000 * pi / 180 / 600000 m = 185 mm along either axis;           *)
(*   - a bearing is in hundredths of a degree.                             *)
(* Square roots are exact on the inputs the specifications draw (Init      *)
(* keeps the layouts whose centroid distances are whole).                  *)
(*                                                                         *)
(* An absent (undefined / null) property is the empty set, a present one   *)
(* the singleton of its value.  A room key `${name}_F${floor}` is the pair *)
(* <<name, floor>>: for numeric floors the string is injective in it.      *)
(* A feature object is referred to by its index in the input list.         *)
(***************************************************************************)
EXTENDS Integers, Sequences, FiniteSets, TLC

\* ------------------------------------------------------------------ bounds
MaxFeatures == 3

\* ---------------------------------------------------------------- numbers
Abs(x) == IF x < 0 THEN -x ELSE x

Min(a, b) == IF a < b THEN a ELSE b

RECURSIVE RootIter(_, _, _)
RootIter(n, lo, hi) ==
  IF lo >= hi THEN lo
  ELSE LET mid == (lo + hi + 1) \div 2
       IN  IF mid * mid <= n THEN RootIter(n, mid, hi)
           ELSE RootIter(n, lo, mid - 1)

\* Math.sqrt, rounded down to a whole number
Sqrt(n) == RootIter(n, 0, Min(n, 46340))

IsSquare(n) == Sqrt(n) * Sqrt(n) = n

\* Euclidean distance between two points, in units
distance(p1, p2) ==
  LET dx == p1[1] - p2[1]
      dy == p1[2] - p2[2]
  IN  Sqrt(dx * dx + dy * dy)

\* the square of distance: sqrt is monotone, so comparing squares compares
\* distances without rounding
DistanceSq(p1, p2) ==
  (p1[1] - p2[1]) * (p1[1] - p2[1]) + (p1[2] - p2[2]) * (p1[2] - p2[2])

ExactDistance(p1, p2) ==
  IsSquare((p1[1] - p2[1]) * (p1[1] - p2[1]) + (p1[2] - p2[2]) * (p1[2] - p2[2]))

RECURSIVE SumSeq(_)
SumSeq(s) == IF s = <<>> THEN 0 ELSE Head(s) + SumSeq(Tail(s))

\* ------------------------------------------------------------------ names
\* String.prototype.toLowerCase on the names the model uses
ToLowerCase(s) ==
  CASE s = "RoomA" -> "rooma"
    [] s = "ROOMA" -> "rooma"
    [] s = "RoomB" -> "roomb"
    [] s = "RoomC" -> "roomc"
    [] s = "Hall1" -> "hall1"
    [] s = "Corridor1" -> "corridor1"
    [] s = "Elevator_1" -> "elevator_1"
    [] s = "Stairs_1" -> "stairs_1"
    [] s = "Lift_1" -> "lift_1"
    [] s = "Lobby" -> "lobby"
    [] s = "Floor" -> "floor"
    [] OTHER -> s

\* the keywords of the classifiers that occur in a lower-case name
KeywordsIn(lower) ==
  CASE lower = "hall1" -> {"hall"}
    [] lower = "corridor1" -> {"corridor"}
    [] lower = "elevator_1" -> {"elevator"}
    [] lower = "stairs_1" -> {"stair"}
    [] lower = "lift_1" -> {"lift"}
    [] lower = "lobby" -> {"lobby"}
    [] OTHER -> {}

\* String.prototype.includes
Includes(lower, keyword) == keyword \in KeywordsIn(lower)

isVerticalConnector(roomName) ==
  LET name == ToLowerCase(roomName)
  IN  \/ Includes(name, "stair")
      \/ Includes(name, "escada")
      \/ Includes(name, "elevador")
      \/ Includes(name, "elevator")
      \/ Includes(name, "corredor")
      \/ Includes(name, "corridor")
      \/ Includes(name, "hallway")
      \/ Includes(name, "lobby")

isCorridor(roomName) ==
  LET name == ToLowerCase(roomName)
  IN  \/ Includes(name, "hall")
      \/ Includes(name, "corridor")
      \/ Includes(name, "corredor")
      \/ Includes(name, "hallway")
      \/ Includes(name, "lobby")
      \/ Includes(name, "passage")
      \/ Includes(name, "passagem")

\* isNavigableRoom with the exclusion list forgotten
isNavigableRoomAlways(roomName) == TRUE

isNavigableRoom(roomName) ==
  LET name == ToLowerCase(roomName)
  IN  ~(name = "floor" \/ name = "structure" \/ name = "void" \/ name = "exterior")

\* --------------------------------------------------------------- features
\* a || b || ... on optional numbers / strings: the first truthy value
TruthyNum(v) == v /= {} /\ v /= {0}

TruthyStr(v) == v /= {} /\ v /= {""}

TheValue(v) == CHOOSE x \in v : TRUE

getRoomFloor(room) ==
  IF TruthyNum(room.properties.floor) THEN TheValue(room.properties.floor)
  ELSE IF TruthyNum(room.properties.nivel) THEN TheValue(room.properties.nivel)
  ELSE IF TruthyNum(room.properties.level) THEN TheValue(room.properties.level)
  ELSE 0

getRoomName(room) ==
  IF TruthyStr(room.properties.name) THEN TheValue(room.properties.name)
  ELSE IF TruthyStr(room.properties.id) THEN TheValue(room.properties.id)
  ELSE IF TruthyStr(room.properties.room_id) THEN TheValue(room.properties.room_id)
  ELSE ""

\* The coordinate list a geometry is read as: coordinates[0] of a Polygon,
\* coordinates[0][0] of a MultiPolygon, coordinates of a LineString, [] of any
\* other type.  ok = FALSE when the read yields undefined, whose use (.length,
\* spread) raises a TypeError.
OuterCoords(geometry) ==
  LET c == geometry.coordinates
  IN  CASE geometry.type = "Polygon" ->
             IF Len(c) >= 1 THEN [ok |-> TRUE, coords |-> c[1]]
             ELSE [ok |-> FALSE, coords |-> <<>>]
        [] geometry.type = "MultiPolygon" ->
             IF Len(c) >= 1 /\ Len(c[1]) >= 1 THEN [ok |-> TRUE, coords |-> c[1][1]]
             ELSE [ok |-> FALSE, coords |-> <<>>]
        [] geometry.type = "LineString" -> [ok |-> TRUE, coords |-> c]
        [] OTHER -> [ok |-> TRUE, coords |-> <<>>]

\* x / n
Quot(x, n) == IF x >= 0 THEN x \div n ELSE -((-x) \div n)

\* the mean of a non-empty coordinate list
MeanPoint(coords) ==
  << Quot(SumSeq([i \in 1..Len(coords) |-> coords[i][1]]), Len(coords)),
     Quot(SumSeq([i \in 1..Len(coords) |-> coords[i][2]]), Len(coords)) >>

getCentroid(room) ==
  LET Of(oc) ==
        IF ~oc.ok THEN [ok |-> FALSE, centroid |-> <<0, 0>>]
        ELSE IF Len(oc.coords) = 0 THEN [ok |-> TRUE, centroid |-> <<0, 0>>]
        ELSE [ok |-> TRUE, centroid |-> MeanPoint(oc.coords)]
  IN  Of(OuterCoords(room.geometry))

\* ------------------------------------------------------------- room index
\* index of the room with this key in the insertion-ordered Map, 0 if none
\* the room lookup keyed by the name alone
RoomIndexByName(rooms, name, floor) ==
  LET hits == {k \in 1..Len(rooms) : rooms[k].name = name}
  IN  IF hits = {} THEN 0 ELSE CHOOSE k \in hits : TRUE

RoomIndex(rooms, name, floor) ==
  LET hits == {k \in 1..Len(rooms) : rooms[k].name = name /\ rooms[k].floor = floor}
  IN  IF hits = {} THEN 0 ELSE CHOOSE k \in hits : TRUE

\* features.forEach of groupRoomsByName: the member lists
RECURSIVE GroupFeatures(_, _, _)
GroupFeatures(features, i, rooms) ==
  IF i > Len(features) THEN rooms
  ELSE LET Put(name, floor, k) ==
             IF k = 0
             THEN Append(rooms, [name |-> name, floor |-> floor,
                                 features |-> <<i>>, centroid |-> <<0, 0>>])
             ELSE [rooms EXCEPT ![k].features = Append(@, i)]
           Keyed(name, floor) == Put(name, floor, RoomIndex(rooms, name, floor))
       IN  GroupFeatures(features, i + 1,
                         Keyed(getRoomName(features[i]), getRoomFloor(features[i])))

\* the concatenation of coordinate lists
RECURSIVE Flatten(_)
Flatten(lists) == IF lists = <<>> THEN <<>> ELSE Head(lists) \o Flatten(Tail(lists))

\* the centroid of one room group as the mean of all its features' vertices
RoomCentroidOfVertices(features, room) ==
  LET Of(rings) ==
        IF \E j \in 1..Len(rings) : ~rings[j].ok
        THEN [ok |-> FALSE, centroid |-> <<0, 0>>]
        ELSE IF Flatten([j \in 1..Len(rings) |-> rings[j].coords]) = <<>>
        THEN [ok |-> TRUE, centroid |-> <<0, 0>>]
        ELSE [ok |-> TRUE,
              centroid |-> MeanPoint(Flatten([j \in 1..Len(rings) |-> rings[j].coords]))]
  IN  Of([j \in 1..Len(room.features) |-> OuterCoords(features[room.features[j]].geometry)])

\* the centroid of one room group: the mean of its features' centroids
RoomCentroid(features, room) ==
  LET Of(centroids) ==
        IF \E j \in 1..Len(centroids) : ~centroids[j].ok
        THEN [ok |-> FALSE, centroid |-> <<0, 0>>]
        ELSE [ok |-> TRUE,
              centroid |-> MeanPoint([j \in 1..Len(centroids) |-> centroids[j].centroid])]
  IN  Of([j \in 1..Len(room.features) |-> getCentroid(features[room.features[j]])])

\* groupRoomsByName: ok = FALSE when a centroid computation raises
groupRoomsByName(features) ==
  LET Of(grouped, cs) ==
        [ok |-> \A k \in 1..Len(grouped) : cs[k].ok,
         rooms |-> [k \in 1..Len(grouped) |->
                      [grouped[k] EXCEPT !.centroid = cs[k].centroid]]]
      Centroids(grouped) ==
        Of(grouped, [k \in 1..Len(grouped) |-> RoomCentroid(features, grouped[k])])
  IN  Centroids(GroupFeatures(features, 1, <<>>))

\* ---------------------------------------------------------- graph builder
\* thresholds of buildRoomGraph, in units (0.05, 0.03, 0.015, 0.02 degree)
CorridorCorridorThreshold == 30000

CorridorRoomThreshold == 18000

RoomRoomThreshold == 9000

VerticalThreshold == 12000

\* weight multipliers of buildRoomGraph, in tenths (0.8, 0.9, 1.2, 2)
CorridorCorridorFactor == 8

CorridorRoomFactor == 9

RoomRoomFactor == 12

FloorChangeFactor == 20

\* a heuristic distance in the unit of the weights (tenths of a unit)
WeightScale == 10

\* the same-floor threshold taken from the class of the first room alone
SameFloorThresholdOneSided(isRoomCorridor, isOtherCorridor) ==
  IF isRoomCorridor THEN CorridorCorridorThreshold ELSE RoomRoomThreshold

\* the same-floor threshold with the regular one for every class
SameFloorThresholdTight(isRoomCorridor, isOtherCorridor) == RoomRoomThreshold

SameFloorThreshold(isRoomCorridor, isOtherCorridor) ==
  IF isRoomCorridor /\ isOtherCorridor THEN CorridorCorridorThreshold
  ELSE IF isRoomCorridor \/ isOtherCorridor THEN CorridorRoomThreshold
  ELSE RoomRoomThreshold

\* the same-floor weight without the corridor discounts
SameFloorWeightFlat(dist, isRoomCorridor, isOtherCorridor) == dist * RoomRoomFactor

SameFloorWeight(dist, isRoomCorridor, isOtherCorridor) ==
  IF isRoomCorridor /\ isOtherCorridor THEN dist * CorridorCorridorFactor
  ELSE IF isRoomCorridor \/ isOtherCorridor THEN dist * CorridorRoomFactor
  ELSE dist * RoomRoomFactor

KeyOf(room) == <<room.name, room.floor>>

\* the neighbor entries (none or one) that room gets for otherRoom
NeighborEntry(room, otherRoom) ==
  LET entry(w) == [key |-> KeyOf(otherRoom), name |-> otherRoom.name,
                   floor |-> otherRoom.floor, distance |-> w,
                   isCorridor |-> isCorridor(otherRoom.name)]
      At(dist) ==
        IF room.floor = otherRoom.floor
        THEN IF dist < SameFloorThreshold(isCorridor(room.name), isCorridor(otherRoom.name))
                /\ dist > 0
             THEN << entry(SameFloorWeight(dist, isCorridor(room.name),
                                           isCorridor(otherRoom.name))) >>
             ELSE <<>>
        ELSE IF Abs(room.floor - otherRoom.floor) = 1
        THEN IF (isVerticalConnector(room.name) \/ isVerticalConnector(otherRoom.name))
                /\ dist < VerticalThreshold /\ dist > 0
             THEN << entry(dist * FloorChangeFactor) >>
             ELSE <<>>
        ELSE <<>>
  IN  IF room.name = otherRoom.name /\ room.floor = otherRoom.floor THEN <<>>
      ELSE At(distance(room.centroid, otherRoom.centroid))

RECURSIVE Neighbors(_, _, _)
Neighbors(room, filteredRooms, j) ==
  IF j > Len(filteredRooms) THEN <<>>
  ELSE NeighborEntry(room, filteredRooms[j]) \o Neighbors(room, filteredRooms, j + 1)

\* buildRoomGraph: the nodes in Map insertion order
\* buildRoomGraph without the floor filter
buildRoomGraphAnyFloor(roomGroups, targetFloor) ==
  LET navigable(r) == isNavigableRoom(r.name)
      Of(filteredRooms) ==
        [k \in 1..Len(filteredRooms) |->
           [key |-> KeyOf(filteredRooms[k]),
            room |-> filteredRooms[k],
            neighbors |-> Neighbors(filteredRooms[k], filteredRooms, 1),
            centroid |-> filteredRooms[k].centroid,
            isCorridor |-> isCorridor(filteredRooms[k].name)]]
  IN  Of(SelectSeq(roomGroups, navigable))

buildRoomGraph(roomGroups, targetFloor) ==
  LET onFloor(r) == targetFloor = {} \/ targetFloor = {r.floor}
      navigable(r) == isNavigableRoom(r.name)
      Of(filteredRooms) ==
        [k \in 1..Len(filteredRooms) |->
           [key |-> KeyOf(filteredRooms[k]),
            room |-> filteredRooms[k],
            neighbors |-> Neighbors(filteredRooms[k], filteredRooms, 1),
            centroid |-> filteredRooms[k].centroid,
            isCorridor |-> isCorridor(filteredRooms[k].name)]]
  IN  Of(SelectSeq(SelectSeq(roomGroups, onFloor), navigable))

\* Map.prototype.has / get on the graph
NodeIndex(graph, key) ==
  LET hits == {k \in 1..Len(graph) : graph[k].key = key}
  IN  IF hits = {} THEN 0 ELSE CHOOSE k \in hits : TRUE

HasNode(graph, key) == NodeIndex(graph, key) /= 0

NodeOf(graph, key) == graph[NodeIndex(graph, key)]

\* ------------------------------------------------------------ path search
\* Map.prototype.get of a score, undefined as the empty set
ScoreOf(score, key) == IF key \in DOMAIN score THEN {score[key]} ELSE {}

\* the scan of the open set for the lowest f: `fScore.get(key) || Infinity`
\* reads an absent score and a score of 0 as Infinity, and `f < lowestF`
\* keeps the first of equal scores and never takes an Infinity.  The result
\* is the empty set for `current = null`.
RECURSIVE LowestFrom(_, _, _, _)
LowestFrom(openSet, fScore, j, best) ==
  IF j > Len(openSet) THEN best
  ELSE LET f == ScoreOf(fScore, openSet[j])
       IN  IF TruthyNum(f) /\ (best = {} \/ TheValue(f) < fScore[TheValue(best)])
           THEN LowestFrom(openSet, fScore, j + 1, {openSet[j]})
           ELSE LowestFrom(openSet, fScore, j + 1, best)

\* the open-set choice by insertion order instead of by f
LowestFFirst(openSet, fScore) == IF Len(openSet) = 0 THEN {} ELSE {openSet[1]}

LowestF(openSet, fScore) == LowestFrom(openSet, fScore, 1, {})

\* the goal test without the predecessor walk
ReconstructPathGoalOnly(cameFrom, current) == <<current>>

\* the predecessor walk of the goal test: path.unshift(current) while
\* cameFrom has current
RECURSIVE ReconstructPath(_, _)
ReconstructPath(cameFrom, current) ==
  IF current \in DOMAIN cameFrom
  THEN Append(ReconstructPath(cameFrom, cameFrom[current]), current)
  ELSE <<current>>

\* an open set that forgets nothing
WithoutNothing(openSet, key) == openSet

\* Set.prototype.delete on the insertion-ordered open set
Without(openSet, key) == SelectSeq(openSet, LAMBDA k : k /= key)

InSeq(s, x) == \E j \in 1..Len(s) : s[j] = x

\* JavaScript's Infinity: larger than any score
Infinity == 1000000000

\* the tentative score with the cost so far forgotten
TentativeGEdgeOnly(currentG, neighbor) == neighbor.distance

TentativeG(currentG, neighbor) == currentG + neighbor.distance

\* the body of currentNode.neighbors.forEach for one neighbor; st holds
\* openSet, cameFrom, gScore and fScore
Relax(graph, endKey, closedSet, current, currentG, neighbor, st) ==
  LET Update(tentativeGScore) ==
        IF ~HasNode(graph, neighbor.key)
        THEN [st EXCEPT !.cameFrom = (neighbor.key :> current) @@ st.cameFrom,
                        !.gScore = (neighbor.key :> tentativeGScore) @@ st.gScore]
        ELSE [cameFrom |-> (neighbor.key :> current) @@ st.cameFrom,
              gScore |-> (neighbor.key :> tentativeGScore) @@ st.gScore,
              fScore |-> (neighbor.key :>
                            tentativeGScore
                              + WeightScale * distance(NodeOf(graph, neighbor.key).centroid,
                                                       NodeOf(graph, endKey).centroid))
                           @@ st.fScore,
              openSet |-> IF InSeq(st.openSet, neighbor.key) THEN st.openSet
                          ELSE Append(st.openSet, neighbor.key)]
      Try(tentativeGScore, known) ==
        IF known = {} \/ tentativeGScore < TheValue(known)
        THEN Update(tentativeGScore)
        ELSE st
  IN  IF neighbor.key \in closedSet THEN st
      ELSE Try(TentativeG(currentG, neighbor), ScoreOf(st.gScore, neighbor.key))

RECURSIVE RelaxAll(_, _, _, _, _, _, _, _)
RelaxAll(graph, endKey, closedSet, current, currentG, neighbors, j, st) ==
  IF j > Len(neighbors) THEN st
  ELSE RelaxAll(graph, endKey, closedSet, current, currentG, neighbors, j + 1,
                Relax(graph, endKey, closedSet, current, currentG, neighbors[j], st))

\* ---------------------------------------------------------- path enhancer
\* thresholds of addCorridorWaypoints, in units (0.008, 0.015, 0.012, 0.01)
WaypointThreshold == 4800

CorridorSpanThreshold == 9000

RoomSpanThreshold == 7200

WaypointSpacing == 6000

MaxCorridorWaypoints == 5

\* the outer coordinates of all features of a route point put together
RECURSIVE AllCoords(_, _, _)
AllCoords(features, members, j) ==
  LET Join(oc, rest) == [ok |-> oc.ok /\ rest.ok, coords |-> oc.coords \o rest.coords]
  IN  IF j > Len(members) THEN [ok |-> TRUE, coords |-> <<>>]
      ELSE Join(OuterCoords(features[members[j]].geometry),
                AllCoords(features, members, j + 1))

\* the linear scan for the vertex nearest to targetPoint: the first of the
\* nearest, because a later vertex replaces it only when strictly nearer
RECURSIVE ClosestFrom(_, _, _, _)
ClosestFrom(coords, targetPoint, j, closestPoint) ==
  IF j > Len(coords) THEN closestPoint
  ELSE IF DistanceSq(coords[j], targetPoint) < DistanceSq(closestPoint, targetPoint)
  THEN ClosestFrom(coords, targetPoint, j + 1, coords[j])
  ELSE ClosestFrom(coords, targetPoint, j + 1, closestPoint)

\* getRoomBoundaryPoints: point = {} for null
getRoomBoundaryPoints(features, room, targetPoint) ==
  LET Of(ac) ==
        IF ~ac.ok THEN [ok |-> FALSE, point |-> {}]
        ELSE IF Len(ac.coords) = 0 THEN [ok |-> TRUE, point |-> {}]
        ELSE [ok |-> TRUE,
              point |-> {ClosestFrom(ac.coords, targetPoint, 1, ac.coords[1])}]
  IN  Of(AllCoords(features, room.features, 1))

\* a + (b - a) * (i / (n + 1))
Interpolate(a, b, i, n) ==
  << a[1] + Quot((b[1] - a[1]) * i, n + 1), a[2] + Quot((b[2] - a[2]) * i, n + 1) >>

getCorridorPathPoints(features, room, fromPoint, toPoint, numPoints) ==
  LET Of(ac, entryPoint, exitPoint) ==
        IF ~ac.ok THEN [ok |-> FALSE, points |-> <<>>]
        ELSE IF Len(ac.coords) < 3 THEN [ok |-> TRUE, points |-> <<>>]
        ELSE IF entryPoint.point = {} \/ exitPoint.point = {}
        THEN [ok |-> TRUE, points |-> <<>>]
        ELSE [ok |-> TRUE,
              points |-> [i \in 1..numPoints |->
                            Interpolate(TheValue(entryPoint.point),
                                        TheValue(exitPoint.point), i, numPoints)]]
  IN  Of(AllCoords(features, room.features, 1),
         getRoomBoundaryPoints(features, room, fromPoint),
         getRoomBoundaryPoints(features, room, toPoint))

\* an inserted point put two floors up
WaypointUpstairs(coords, floor, name, members) ==
  [coords |-> coords, floor |-> floor + 2, name |-> name, features |-> members,
   isCorridor |-> {}, isWaypoint |-> TRUE]

\* an inserted point that is not marked as a waypoint
WaypointUnmarked(coords, floor, name, members) ==
  [coords |-> coords, floor |-> floor, name |-> name, features |-> members,
   isCorridor |-> {}, isWaypoint |-> FALSE]

\* a point the enhancer inserts
Waypoint(coords, floor, name, members) ==
  [coords |-> coords, floor |-> floor, name |-> name, features |-> members,
   isCorridor |-> {}, isWaypoint |-> TRUE]

\* the points addCorridorWaypoints inserts after pathCoords[i]
Inserted(features, pathCoords, i) ==
  LET current == pathCoords[i]
      next == pathCoords[i + 1]
      currentIsCorridor == isCorridor(current.name)
      nextIsCorridor == isCorridor(next.name)
      none == [ok |-> TRUE, points |-> <<>>]
      Boundary(wp) ==
        IF ~wp.ok THEN [ok |-> FALSE, points |-> <<>>]
        ELSE IF wp.point = {} THEN none
        ELSE [ok |-> TRUE,
              points |-> << Waypoint(TheValue(wp.point), current.floor,
                              IF currentIsCorridor THEN current.name ELSE next.name,
                              IF currentIsCorridor THEN current.features
                              ELSE next.features) >>]
      Along(numWaypoints, corridorPoints) ==
        [ok |-> corridorPoints.ok,
         points |->
           IF Len(corridorPoints.points) > 0
           THEN [j \in 1..Len(corridorPoints.points) |->
                   Waypoint(corridorPoints.points[j], current.floor, current.name,
                            current.features)]
           ELSE [j \in 1..numWaypoints |->
                   Waypoint(Interpolate(current.coords, next.coords, j, numWaypoints),
                            current.floor, current.name, current.features)]]
      Spine(numWaypoints) ==
        Along(numWaypoints,
              getCorridorPathPoints(features, current,
                IF i > 1 THEN pathCoords[i - 1].coords ELSE current.coords,
                IF i < Len(pathCoords) - 1 THEN pathCoords[i + 2].coords ELSE next.coords,
                numWaypoints))
      At(dist) ==
        IF ~(dist > WaypointThreshold) THEN none
        ELSE IF currentIsCorridor /= nextIsCorridor
        THEN Boundary(IF currentIsCorridor
                      THEN getRoomBoundaryPoints(features, current, next.coords)
                      ELSE getRoomBoundaryPoints(features, next, current.coords))
        ELSE IF currentIsCorridor /\ nextIsCorridor /\ dist > CorridorSpanThreshold
        THEN Spine(Min(dist \div WaypointSpacing, MaxCorridorWaypoints))
        ELSE IF ~currentIsCorridor /\ ~nextIsCorridor /\ dist > RoomSpanThreshold
        THEN [ok |-> TRUE,
              points |-> << Waypoint(<< Quot(current.coords[1] + next.coords[1], 2),
                                        Quot(current.coords[2] + next.coords[2], 2) >>,
                                     current.floor, "transition", current.features) >>]
        ELSE none
  IN  At(distance(current.coords, next.coords))

RECURSIVE EnhanceFrom(_, _, _)
EnhanceFrom(features, pathCoords, i) ==
  LET Join(ins, rest) ==
        [ok |-> ins.ok /\ rest.ok,
         points |-> <<pathCoords[i]>> \o ins.points \o rest.points]
  IN  IF i > Len(pathCoords) THEN [ok |-> TRUE, points |-> <<>>]
      ELSE Join(IF i < Len(pathCoords) THEN Inserted(features, pathCoords, i)
                ELSE [ok |-> TRUE, points |-> <<>>],
                EnhanceFrom(features, pathCoords, i + 1))

addCorridorWaypoints(features, pathCoords) ==
  IF Len(pathCoords) < 2 THEN [ok |-> TRUE, points |-> pathCoords]
  ELSE EnhanceFrom(features, pathCoords, 1)

\* pathKeys.map of findRoute: the raw route of room centroids
PathCoords(graph, pathKeys) ==
  [j \in 1..Len(pathKeys) |->
     LET node == NodeOf(graph, pathKeys[j])
     IN  [coords |-> node.centroid, floor |-> node.room.floor, name |-> node.room.name,
          features |-> node.room.features, isCorridor |-> {node.isCorridor},
          isWaypoint |-> FALSE]]

\* the key lookup that keeps the first match
RECURSIVE ResolveFromFirst(_, _, _, _)
ResolveFromFirst(graph, wanted, j, found) ==
  IF j > Len(graph) THEN found
  ELSE ResolveFromFirst(graph, wanted, j + 1,
         IF ToLowerCase(graph[j].room.name) = wanted /\ found = {}
         THEN {graph[j].key} ELSE found)

\* graph.forEach of findRoute: the key of the last node whose lower-case name
\* is wanted, {} when there is none
RECURSIVE ResolveFrom(_, _, _, _)
ResolveFrom(graph, wanted, j, found) ==
  IF j > Len(graph) THEN found
  ELSE ResolveFrom(graph, wanted, j + 1,
         IF ToLowerCase(graph[j].room.name) = wanted THEN {graph[j].key} ELSE found)

ResolveKey(graph, wanted) == ResolveFrom(graph, wanted, 1, {})

\* --------------------------------------------------- directions generator
\* metres as millimetres; the length of one unit near latitude 0
MillimetresPerUnit == 185

\* Haversine distance in millimetres
calculateDistance(coord1, coord2) == distance(coord1, coord2) * MillimetresPerUnit

\* Forward bearing in hundredths of a degree.  Near latitude 0 it is the
\* angle atan2(east, north) of the displacement: 0, 90, 180 and 270 degrees
\* along the axes (0 for no displacement, atan2(0, 0)), 45 degrees on the
\* diagonals, 36.87 and 53.13 degrees for the 3:4 and 4:3 slopes.  Any other
\* slope is read as the nearer of these.
FirstQuadrantBearing(east, north) ==
  IF east = 0 THEN 0
  ELSE IF north = 0 THEN 9000
  ELSE IF 4 * east = 3 * north THEN 3687
  ELSE IF 3 * east = 4 * north THEN 5313
  ELSE IF east = north THEN 4500
  ELSE IF 3 * east < north THEN 0
  ELSE IF 15 * east < 13 * north THEN 3687
  ELSE IF 13 * east < 15 * north THEN 4500
  ELSE IF east < 3 * north THEN 5313
  ELSE 9000

calculateBearing(coord1, coord2) ==
  LET east == coord2[1] - coord1[1]
      north == coord2[2] - coord1[2]
      q == FirstQuadrantBearing(Abs(east), Abs(north))
  IN  IF east >= 0 /\ north >= 0 THEN q
      ELSE IF east >= 0 THEN 18000 - q
      ELSE IF north < 0 THEN 18000 + q
      ELSE (36000 - q) % 36000

\* the two while loops of calculateTurn
RECURSIVE NormalizeDiff(_)
NormalizeDiff(diff) ==
  IF diff > 18000 THEN NormalizeDiff(diff - 36000)
  ELSE IF diff < -18000 THEN NormalizeDiff(diff + 36000)
  ELSE diff

\* calculateTurn with the plain band ending at 90 degrees
calculateTurnNarrow(bearing1, bearing2) ==
  LET diff == NormalizeDiff(bearing2 - bearing1)
      absDiff == Abs(diff)
  IN  IF absDiff < 2000 THEN "straight"
      ELSE IF absDiff < 6000 THEN (IF diff > 0 THEN "slight right" ELSE "slight left")
      ELSE IF absDiff < 9000 THEN (IF diff > 0 THEN "right" ELSE "left")
      ELSE IF absDiff < 16000 THEN (IF diff > 0 THEN "sharp right" ELSE "sharp left")
      ELSE "back"

calculateTurn(bearing1, bearing2) ==
  LET diff == NormalizeDiff(bearing2 - bearing1)
      absDiff == Abs(diff)
  IN  IF absDiff < 2000 THEN "straight"
      ELSE IF absDiff < 6000 THEN (IF diff > 0 THEN "slight right" ELSE "slight left")
      ELSE IF absDiff < 12000 THEN (IF diff > 0 THEN "right" ELSE "left")
      ELSE IF absDiff < 16000 THEN (IF diff > 0 THEN "sharp right" ELSE "sharp left")
      ELSE "back"

isStairwell(name) ==
  LET lower == ToLowerCase(name)
  IN  Includes(lower, "stair") \/ Includes(lower, "escada")

isElevator(name) ==
  LET lower == ToLowerCase(name)
  IN  Includes(lower, "elevator") \/ Includes(lower, "elevador") \/ Includes(lower, "lift")

\* isCorridor of the directions generator
isCorridorName(name) ==
  LET lower == ToLowerCase(name)
  IN  \/ Includes(lower, "corridor")
      \/ Includes(lower, "corredor")
      \/ Includes(lower, "hallway")
      \/ Includes(lower, "hall")
      \/ Includes(lower, "lobby")
      \/ Includes(lower, "passage")

\* minimum accumulated distance for a turn / a waypoint instruction (3 m, 5 m)
TurnMinDistance == 3000

WaypointMinDistance == 5000

\* a direction object; targetFloor and turn are {} when the field is absent
Direction(id, type, instruction, floor, targetFloor, dist, cumulative, point, turn) ==
  [id |-> id, type |-> type, instruction |-> instruction, floor |-> floor,
   targetFloor |-> targetFloor, distance |-> dist, cumulativeDistance |-> cumulative,
   location |-> point.name, coords |-> point.coords, turn |-> turn]

StartDirection(routePath) ==
  Direction(0, "start", <<"Start at", routePath[1].name>>, routePath[1].floor, {},
            0, 0, routePath[1], {})

FloorChangeType(previous) ==
  IF isStairwell(previous.name) THEN "stairs"
  ELSE IF isElevator(previous.name) THEN "elevator"
  ELSE "stairs/elevator"

TurnInstruction(turn, current) ==
  LET turnInstruction ==
        IF turn = "back" THEN <<"Turn around">>
        ELSE IF turn \in {"slight right", "slight left"} THEN <<"Continue", turn>>
        ELSE <<"Turn", turn>>
  IN  IF isCorridorName(current.name) THEN turnInstruction
      ELSE turnInstruction \o <<"at", current.name>>

\* the floor-change branch whose direction carries no distance
FloorChangeBranchNoDistance(previous, current, lp, segment, cumulative) ==
  [directions |->
     Append(lp.directions,
       Direction(Len(lp.directions), "floor_change",
         <<"Take", FloorChangeType(previous),
           IF current.floor - previous.floor > 0 THEN "up" ELSE "down", "to Floor">>,
         previous.floor, {current.floor}, 0, cumulative, previous, {})),
   cumulativeDistance |-> cumulative,
   previousBearing |-> {},
   segmentDistance |-> 0]

\* the floor-change branch that keeps the bearing tracker
FloorChangeBranchKeepsBearing(previous, current, lp, segment, cumulative) ==
  [directions |->
     Append(lp.directions,
       Direction(Len(lp.directions), "floor_change",
         <<"Take", FloorChangeType(previous),
           IF current.floor - previous.floor > 0 THEN "up" ELSE "down", "to Floor">>,
         previous.floor, {current.floor}, segment, cumulative, previous, {})),
   cumulativeDistance |-> cumulative,
   previousBearing |-> lp.previousBearing,
   segmentDistance |-> 0]

\* the floor-change branch of the loop body
FloorChangeBranch(previous, current, lp, segment, cumulative) ==
  [directions |->
     Append(lp.directions,
       Direction(Len(lp.directions), "floor_change",
         <<"Take", FloorChangeType(previous),
           IF current.floor - previous.floor > 0 THEN "up" ELSE "down", "to Floor">>,
         previous.floor, {current.floor}, segment, cumulative, previous, {})),
   cumulativeDistance |-> cumulative,
   previousBearing |-> {},
   segmentDistance |-> 0]

\* the pass-through check of the loop body, with the directions and the
\* segment distance the turn check has left
WaypointBranch(routePath, i, current, dirs, segment, cumulative, currentBearing) ==
  IF ~isCorridorName(current.name) /\ i - 1 < Len(routePath) - 1
       /\ i - 1 < Len(routePath) - 2 /\ segment > WaypointMinDistance
  THEN [directions |->
          Append(dirs, Direction(Len(dirs), "waypoint", <<"Pass through", current.name>>,
                                 current.floor, {}, segment, cumulative, current, {})),
        cumulativeDistance |-> cumulative,
        previousBearing |-> {currentBearing},
        segmentDistance |-> 0]
  ELSE [directions |-> dirs,
        cumulativeDistance |-> cumulative,
        previousBearing |-> {currentBearing},
        segmentDistance |-> segment]

\* the turn check that leaves the segment distance as it is
TurnBranchKeepsSegment(routePath, i, current, lp, segment, cumulative, currentBearing, turn) ==
  IF lp.previousBearing /= {} /\ turn /= "straight" /\ segment > TurnMinDistance
  THEN WaypointBranch(routePath, i, current,
         Append(lp.directions,
           Direction(Len(lp.directions), "turn", TurnInstruction(turn, current),
                     current.floor, {}, segment, cumulative, current, {turn})),
         segment, cumulative, currentBearing)
  ELSE WaypointBranch(routePath, i, current, lp.directions, segment, cumulative,
                      currentBearing)

\* the turn check without the minimum distance
TurnBranchAnyDistance(routePath, i, current, lp, segment, cumulative, currentBearing, turn) ==
  IF lp.previousBearing /= {} /\ turn /= "straight"
  THEN WaypointBranch(routePath, i, current,
         Append(lp.directions,
           Direction(Len(lp.directions), "turn", TurnInstruction(turn, current),
                     current.floor, {}, segment, cumulative, current, {turn})),
         0, cumulative, currentBearing)
  ELSE WaypointBranch(routePath, i, current, lp.directions, segment, cumulative,
                      currentBearing)

\* the turn check of the loop body, followed by the pass-through check
TurnBranch(routePath, i, current, lp, segment, cumulative, currentBearing, turn) ==
  IF lp.previousBearing /= {} /\ turn /= "straight" /\ segment > TurnMinDistance
  THEN WaypointBranch(routePath, i, current,
         Append(lp.directions,
           Direction(Len(lp.directions), "turn", TurnInstruction(turn, current),
                     current.floor, {}, segment, cumulative, current, {turn})),
         0, cumulative, currentBearing)
  ELSE WaypointBranch(routePath, i, current, lp.directions, segment, cumulative,
                      currentBearing)

\* One iteration of the for loop of generateDirections, for routePath[i] with
\* i counted from 1 (the loop's i + 1).  lp holds directions,
\* cumulativeDistance, previousBearing ({} for null) and segmentDistance.
DirectionsIteration(routePath, i, lp) ==
  LET current == routePath[i]
      previous == routePath[i - 1]
      Turning(distanceToNext, currentBearing) ==
        TurnBranch(routePath, i, current, lp, lp.segmentDistance + distanceToNext,
                   lp.cumulativeDistance + distanceToNext, currentBearing,
                   IF lp.previousBearing = {} THEN "straight"
                   ELSE calculateTurn(TheValue(lp.previousBearing), currentBearing))
      Body(distanceToNext) ==
        IF current.floor /= previous.floor
        THEN FloorChangeBranch(previous, current, lp, lp.segmentDistance + distanceToNext,
                               lp.cumulativeDistance + distanceToNext)
        ELSE Turning(distanceToNext, calculateBearing(previous.coords, current.coords))
  IN  Body(calculateDistance(previous.coords, current.coords))

\* the destination instruction placed at the point before the last
DestinationDirectionEarly(routePath, lp) ==
  Direction(Len(lp.directions), "destination",
            <<"Arrive at", routePath[Len(routePath) - 1].name>>,
            routePath[Len(routePath) - 1].floor, {}, lp.segmentDistance,
            lp.cumulativeDistance, routePath[Len(routePath) - 1], {})

DestinationDirection(routePath, lp) ==
  Direction(Len(lp.directions), "destination",
            <<"Arrive at", routePath[Len(routePath)].name>>,
            routePath[Len(routePath)].floor, {}, lp.segmentDistance,
            lp.cumulativeDistance, routePath[Len(routePath)], {})

\* ------------------------------------------------------- route statistics
\* average walking speed, 1.4 m/s, in millimetres per second
WalkingSpeed == 1400

\* seconds added for each floor change
FloorChangeSeconds == 30

\* Array.prototype.sort((a, b) => a - b) of a set of numbers
RECURSIVE SortAscending(_)
SortAscending(S) ==
  IF S = {} THEN <<>>
  ELSE LET m == CHOOSE x \in S : \A y \in S : x <= y
       IN  <<m>> \o SortAscending(S \ {m})

\* calculateRouteStats without `floorsSet.add(routePath[0].floor)`
calculateRouteStatsLater(routePath) ==
  IF Len(routePath) < 2
  THEN [totalDistance |-> 0, estimatedTime |-> [num |-> 0, den |-> 1],
        floors |-> <<>>, floorChanges |-> 0]
  ELSE LET n == Len(routePath)
           totalDistance ==
             SumSeq([i \in 1..(n - 1) |->
                       calculateDistance(routePath[i].coords, routePath[i + 1].coords)])
           floorChanges ==
             SumSeq([i \in 1..(n - 1) |->
                       IF routePath[i + 1].floor /= routePath[i].floor THEN 1 ELSE 0])
       IN  [totalDistance |-> totalDistance,
            estimatedTime |->
              [num |-> totalDistance + floorChanges * FloorChangeSeconds * WalkingSpeed,
               den |-> WalkingSpeed],
            floors |-> SortAscending({routePath[i].floor : i \in 2..n}),
            floorChanges |-> floorChanges]

\* calculateRouteStats; estimatedTime is the fraction num / den of seconds
calculateRouteStats(routePath) ==
  IF Len(routePath) < 2
  THEN [totalDistance |-> 0, estimatedTime |-> [num |-> 0, den |-> 1],
        floors |-> <<>>, floorChanges |-> 0]
  ELSE LET n == Len(routePath)
           totalDistance ==
             SumSeq([i \in 1..(n - 1) |->
                       calculateDistance(routePath[i].coords, routePath[i + 1].coords)])
           floorChanges ==
             SumSeq([i \in 1..(n - 1) |->
                       IF routePath[i + 1].floor /= routePath[i].floor THEN 1 ELSE 0])
       IN  [totalDistance |-> totalDistance,
            estimatedTime |->
              [num |-> totalDistance + floorChanges * FloorChangeSeconds * WalkingSpeed,
               den |-> WalkingSpeed],
            floors |-> SortAscending({routePath[i].floor : i \in 1..n}),
            floorChanges |-> floorChanges]

\* ------------------------------------------------------------------ state
VARIABLES
  features,      \* findRoute's rooms argument: the feature list
  startRoom,     \* findRoute's startRoom argument
  endRoom,       \* findRoute's endRoom argument
  targetFloor,   \* findRoute's targetFloor argument, {} for null
  pc,            \* the place the program is at
  roomGroups,    \* the room index of the call, in Map insertion order
  graph,         \* the graph of the call, in Map insertion order
  startKey,      \* the resolved keys, {} for null
  endKey,
  openSet,       \* aStar's open set, in Set insertion order
  closedSet,
  cameFrom,
  gScore,
  fScore,
  iterations,
  pathKeys,      \* aStar's return value when it is a path
  result,        \* of findRoute: "pending", "null", "route" or "threw"
  routePath,     \* the route handed to the directions generator
  loop,          \* generateDirections' locals
  index,         \* generateDirections' loop counter, counted from 1
  directions,    \* generateDirections' return value
  stats,         \* calculateRouteStats' return value
  bearing1,      \* calculateTurn's arguments, in whole degrees
  bearing2,
  turn,          \* calculateTurn's return value, "pending" before the call
  currentStep,   \* DirectionsPanel's state: the index of the current step
  isSpeaking,
  voiceEnabled,
  autoPlay,
  directionCount, \* directions.length of the panel's routePath prop
  utterance,     \* the utterance being spoken with what its onend closes over, or {}
  timeouts       \* the pending setTimeout callbacks of onend

inputs == <<features, startRoom, endRoom, targetFloor>>

indexVars == <<roomGroups, graph, startKey, endKey>>

searchVars == <<openSet, closedSet, cameFrom, gScore, fScore, iterations, pathKeys>>

directionVars == <<loop, index, directions, stats>>

turnVars == <<bearing1, bearing2, turn>>

\* the state of the parts that findRoute and generateDirections do not touch
panelVars ==
  <<currentStep, isSpeaking, voiceEnabled, autoPlay, directionCount, utterance, timeouts>>

sideVars == <<turnVars, panelVars>>

vars == <<inputs, pc, indexVars, searchVars, result, routePath, directionVars, sideVars>>

\* no call of calculateTurn on its own is under way
TurnIdle == bearing1 = 0 /\ bearing2 = 0 /\ turn = "pending"

\* no DirectionsPanel is mounted
PanelIdle ==
  /\ currentStep = 0
  /\ isSpeaking = FALSE
  /\ voiceEnabled = FALSE
  /\ autoPlay = FALSE
  /\ directionCount = 0
  /\ utterance = {}
  /\ timeouts = 0

SideIdle == TurnIdle /\ PanelIdle

NoStats ==
  [totalDistance |-> 0, estimatedTime |-> [num |-> 0, den |-> 1],
   floors |-> <<>>, floorChanges |-> 0]

NoLoop ==
  [directions |-> <<>>, cumulativeDistance |-> 0, previousBearing |-> {},
   segmentDistance |-> 0]

\* ---------------------------------------------------------------- actions
\* findRoute up to the call of aStar, and aStar up to its loop
FindRouteCall ==
  /\ pc = "findRoute"
  /\ \E startName \in {ToLowerCase(getRoomName(startRoom))},
        endName \in {ToLowerCase(getRoomName(endRoom))} :
       IF startName = "" \/ endName = ""
       THEN /\ result' = "null"
            /\ pc' = "done"
            /\ UNCHANGED <<indexVars, openSet, gScore, fScore>>
       ELSE \E grouped \in {groupRoomsByName(features)} :
              IF ~grouped.ok
              THEN /\ result' = "threw"
                   /\ pc' = "done"
                   /\ roomGroups' = grouped.rooms
                   /\ UNCHANGED <<graph, startKey, endKey, openSet, gScore, fScore>>
              ELSE \E g \in {buildRoomGraph(grouped.rooms, targetFloor)} :
                   \E sk \in {ResolveKey(g, startName)}, ek \in {ResolveKey(g, endName)} :
                     /\ roomGroups' = grouped.rooms
                     /\ graph' = g
                     /\ startKey' = sk
                     /\ endKey' = ek
                     /\ IF sk = {} \/ ek = {}
                        THEN /\ result' = "null"
                             /\ pc' = "done"
                             /\ UNCHANGED <<openSet, gScore, fScore>>
                        ELSE /\ openSet' = << TheValue(sk) >>
                             /\ gScore' = (TheValue(sk) :> 0)
                             /\ fScore' =
                                  (TheValue(sk) :>
                                     WeightScale * distance(NodeOf(g, TheValue(sk)).centroid,
                                                            NodeOf(g, TheValue(ek)).centroid))
                             /\ pc' = "aStar"
                             /\ UNCHANGED result
  /\ UNCHANGED <<inputs, sideVars, closedSet, cameFrom, iterations, pathKeys, routePath, directionVars>>

\* one pass of aStar's while loop, or its end
AStarIterate ==
  /\ pc = "aStar"
  /\ IF Len(openSet) = 0
     THEN /\ result' = "null"
          /\ pc' = "done"
          /\ UNCHANGED searchVars
     ELSE \E current \in {LowestF(openSet, fScore)} :
            /\ iterations' = iterations + 1
            /\ IF current = {}
               THEN /\ result' = "null"
                    /\ pc' = "done"
                    /\ UNCHANGED <<openSet, closedSet, cameFrom, gScore, fScore, pathKeys>>
               ELSE IF current = endKey
               THEN /\ pathKeys' = ReconstructPath(cameFrom, TheValue(current))
                    /\ pc' = "enhance"
                    /\ UNCHANGED <<openSet, closedSet, cameFrom, gScore, fScore, result>>
               ELSE \E st \in
                      { RelaxAll(graph, TheValue(endKey), closedSet \cup current,
                                 TheValue(current),
                                 IF TheValue(current) \in DOMAIN gScore
                                 THEN gScore[TheValue(current)] ELSE Infinity,
                                 NodeOf(graph, TheValue(current)).neighbors, 1,
                                 [openSet |-> Without(openSet, TheValue(current)),
                                  cameFrom |-> cameFrom,
                                  gScore |-> gScore, fScore |-> fScore]) } :
                      /\ closedSet' = closedSet \cup current
                      /\ openSet' = st.openSet
                      /\ cameFrom' = st.cameFrom
                      /\ gScore' = st.gScore
                      /\ fScore' = st.fScore
                      /\ UNCHANGED <<pathKeys, result, pc>>
  /\ UNCHANGED <<inputs, sideVars, indexVars, routePath, directionVars>>

\* the rest of findRoute once aStar has returned a path
FindRouteReturn ==
  /\ pc = "enhance"
  /\ \E enhancedPath \in {addCorridorWaypoints(features, PathCoords(graph, pathKeys))} :
       IF enhancedPath.ok
       THEN /\ routePath' = enhancedPath.points
            /\ result' = "route"
            /\ pc' = "generateDirections"
       ELSE /\ result' = "threw"
            /\ pc' = "done"
            /\ UNCHANGED routePath
  /\ UNCHANGED <<inputs, sideVars, indexVars, searchVars, directionVars>>

\* generateDirections up to its for loop
GenerateDirections ==
  /\ pc = "generateDirections"
  /\ IF Len(routePath) < 2
     THEN /\ directions' = <<>>
          /\ pc' = "calculateRouteStats"
          /\ UNCHANGED <<loop, index>>
     ELSE /\ loop' = [NoLoop EXCEPT !.directions = << StartDirection(routePath) >>]
          /\ index' = 2
          /\ pc' = "directions"
          /\ UNCHANGED directions
  /\ UNCHANGED <<inputs, sideVars, indexVars, searchVars, result, routePath, stats>>

\* one iteration of the for loop of generateDirections
DirectionsStep ==
  /\ pc = "directions"
  /\ index <= Len(routePath)
  /\ loop' = DirectionsIteration(routePath, index, loop)
  /\ index' = index + 1
  /\ UNCHANGED <<inputs, sideVars, pc, indexVars, searchVars, result, routePath, directions, stats>>

\* the end of generateDirections: the destination instruction and the return
DirectionsReturn ==
  /\ pc = "directions"
  /\ index > Len(routePath)
  /\ directions' = Append(loop.directions, DestinationDirection(routePath, loop))
  /\ pc' = "calculateRouteStats"
  /\ UNCHANGED <<inputs, sideVars, indexVars, searchVars, result, routePath, loop, index, stats>>

CalculateRouteStats ==
  /\ pc = "calculateRouteStats"
  /\ stats' = calculateRouteStats(routePath)
  /\ pc' = "done"
  /\ UNCHANGED <<inputs, sideVars, indexVars, searchVars, result, routePath, loop, index, directions>>

\* ----------------------------------------------------------------- inputs
\* a position given in thousandths of a degree
Pos(x, y) == <<600 * x, 600 * y>>

Properties(name, id, floor, level) ==
  [name |-> name, id |-> id, room_id |-> {}, floor |-> floor, nivel |-> {}, level |-> level]

Feature(name, floor, geometry) ==
  [properties |-> Properties({name}, {}, {floor}, {}), geometry |-> geometry]

\* a closed triangular ring around p whose vertex mean is p
Triangle(p) ==
  [type |-> "Polygon",
   coordinates |-> << << <<p[1], p[2] - 600>>, <<p[1] - 600, p[2] + 600>>,
                         <<p[1] + 600, p[2] + 600>>, <<p[1], p[2] - 600>> >> >>]

Room(name, floor, x, y) == Feature(name, floor, Triangle(Pos(x, y)))

\* degenerate geometries
NoCoordinateArrays == [type |-> "Polygon", coordinates |-> <<>>]

EmptyOuterRing == [type |-> "Polygon", coordinates |-> << <<>> >>]

UnrecognisedType == [type |-> "Point", coordinates |-> <<0, 0>>]

EmptyMultiPolygon == [type |-> "MultiPolygon", coordinates |-> << <<>> >>]

\* the features a small layout is made of
FeatureMenu ==
  { Room("RoomA", 0, -6, 0),
    Room("RoomB", 0, 6, 0),
    Room("Hall1", 0, 0, 0),
    [properties |-> Properties({}, {"RoomB"}, {}, {1}), geometry |-> Triangle(Pos(0, 8))],
    Room("Elevator_1", 1, 0, 8),
    Room("Floor", 0, 0, 0),
    Feature("RoomA", 0, EmptyOuterRing),
    Feature("RoomB", 0, NoCoordinateArrays) }

\* the start and end features of a request
Named(name) == Feature(name, 0, UnrecognisedType)

Unnamed == [properties |-> Properties({}, {}, {0}, {}), geometry |-> UnrecognisedType]

\* requests <<startRoom, endRoom, targetFloor>>
RequestMenu ==
  { <<Named("RoomA"), Named("RoomB"), {}>>,
    <<Named("RoomA"), Named("RoomB"), {0}>>,
    <<Named("ROOMA"), Named("RoomB"), {1}>>,
    <<Named("RoomB"), Named("RoomA"), {}>>,
    <<Unnamed, Named("RoomB"), {}>>,
    <<Named("RoomB"), Named(""), {}>>,
    <<Named("RoomA"), Named("Floor"), {}>> }

\* every centroid distance the pipeline takes a root of is whole
ExactLayout(fs) ==
  LET Of(grouped) ==
        grouped.ok =>
          \A a, b \in 1..Len(grouped.rooms) :
            ExactDistance(grouped.rooms[a].centroid, grouped.rooms[b].centroid)
  IN  Of(groupRoomsByName(fs))

\* all feature lists of at most MaxFeatures features of the menu
SmallLayouts ==
  {fs \in UNION {[1..n -> FeatureMenu] : n \in 0..MaxFeatures} : ExactLayout(fs)}

SmallCalls == {<<fs, r[1], r[2], r[3]>> : fs \in SmallLayouts, r \in RequestMenu}

\* the orders of a list of three
Orders3(s) ==
  { <<s[p[1]], s[p[2]], s[p[3]]>> :
      p \in {q \in [1..3 -> 1..3] : {q[1], q[2], q[3]} = {1, 2, 3}} }

\* gaps between neighbouring rooms on a line, in thousandths of a degree
Gaps == {1, 9, 17, 29}

\* a regular room, a corridor and a regular room in a row on one floor
CorridorTripleCalls ==
  UNION { { <<fs, Named("RoomA"), Named("RoomB"), tf>> :
              fs \in Orders3(<< Room("RoomA", fl, 0, 0), Room(c, fl, a, 0),
                                Room("RoomB", fl, a + b, 0) >>),
              tf \in {{}, {fl}} } :
          a \in Gaps, b \in Gaps, c \in {"Hall1", "Corridor1", "Lobby"}, fl \in {0, 1} }

\* positions whose mutual distances are whole
Crossing == {<<-6, 0>>, <<0, 0>>, <<6, 0>>, <<0, 8>>}

\* RoomA on floor f, RoomB on floor f + 1, Elevator_1 on both
ElevatorCalls ==
  { << << Room("RoomA", f, pa[1], pa[2]), Room("Elevator_1", f, pe[1], pe[2]),
          Room("Elevator_1", f + 1, pf[1], pf[2]), Room("RoomB", f + 1, pb[1], pb[2]) >>,
       Named("RoomA"), Named("RoomB"), {} >> :
      pa \in Crossing, pe \in Crossing, pf \in Crossing, pb \in Crossing, f \in {0, 1} }

\* two corridors and two regular rooms on a line
LinePositions == {0, 1, 17, 31}

LineCalls ==
  { << << Room("Hall1", 0, xh, 0), Room("Corridor1", 0, xc, 0),
          Room("RoomA", 0, xa, 0), Room("RoomB", 0, xb, 0) >>,
       Named(from), Named("RoomB"), {} >> :
      xh \in LinePositions, xc \in LinePositions, xa \in LinePositions,
      xb \in LinePositions, from \in {"Hall1", "RoomA"} }

\* rooms none of which is a corridor, on two floors
Between ==
  { Room(name, fl, p[1], p[2]) :
      name \in {"RoomC", "Stairs_1"}, fl \in {0, 1},
      p \in {<<-6, 0>>, <<0, 0>>, <<6, 0>>, <<0, -8>>} }

RECURSIVE SetToSeq(_)
SetToSeq(S) ==
  IF S = {} THEN <<>>
  ELSE LET x == CHOOSE y \in S : TRUE IN <<x>> \o SetToSeq(S \ {x})

RegularCalls ==
  { << <<Room("RoomA", 0, 0, 8)>> \o SetToSeq(mids) \o <<Room("RoomB", fl, p[1], p[2])>>,
       Named("RoomA"), Named("RoomB"), {} >> :
      mids \in {m \in SUBSET Between : Cardinality(m) \in {2, 3}},
      fl \in {0, 1}, p \in {<<0, -8>>, <<6, 0>>} }

Calls ==
  {c \in SmallCalls \cup CorridorTripleCalls \cup ElevatorCalls \cup LineCalls
           \cup RegularCalls : ExactLayout(c[1])}

Idle ==
  /\ pc = "findRoute"
  /\ roomGroups = <<>>
  /\ graph = <<>>
  /\ startKey = {}
  /\ endKey = {}
  /\ openSet = <<>>
  /\ closedSet = {}
  /\ cameFrom = <<>>
  /\ gScore = <<>>
  /\ fScore = <<>>
  /\ iterations = 0
  /\ pathKeys = <<>>
  /\ result = "pending"
  /\ routePath = <<>>
  /\ loop = NoLoop
  /\ index = 0
  /\ directions = <<>>
  /\ stats = NoStats
  /\ SideIdle

Init ==
  /\ \E c \in Calls :
       /\ features = c[1]
       /\ startRoom = c[2]
       /\ endRoom = c[3]
       /\ targetFloor = c[4]
  /\ Idle

Next ==
  \/ FindRouteCall
  \/ AStarIterate
  \/ FindRouteReturn
  \/ GenerateDirections
  \/ DirectionsStep
  \/ DirectionsReturn
  \/ CalculateRouteStats

Spec == Init /\ [][Next]_vars

\* ----------------------------------------- the directions pipeline alone
\* the longest path, in steps from its first point
MaxSteps == 3

\* steps <<east, north, floors up, name of the point reached>>; a unit is
\* 0.185 m, so the steps are 1.48 m, 3.7 m, 5.55 m, 9.25 m and 9.25 m long
StepMenu ==
  { <<8, 0, 0, "RoomA">>,
    <<0, 8, 0, "Hall1">>,
    <<0, 20, 0, "RoomB">>,
    <<30, 0, 0, "RoomC">>,
    <<-30, -40, 0, "Elevator_1">>,
    <<40, -30, 0, "Stairs_1">>,
    <<-8, 0, 0, "Lobby">>,
    <<0, 0, 1, "RoomB">>,
    <<8, 0, -1, "RoomA">> }

RoutePoint(coords, floor, name) ==
  [coords |-> coords, floor |-> floor, name |-> name, features |-> <<>>,
   isCorridor |-> {isCorridor(name)}, isWaypoint |-> FALSE]

\* the path that starts at first and takes the steps in turn
RECURSIVE Walk(_, _, _)
Walk(path, steps, j) ==
  IF j > Len(steps) THEN path
  ELSE LET Step(last, st) ==
             RoutePoint(<<last.coords[1] + st[1], last.coords[2] + st[2]>>,
                        last.floor + st[3], st[4])
       IN  Walk(Append(path, Step(path[Len(path)], steps[j])), steps, j + 1)

\* steps of 5.55 m, 5.55 m, 3.7 m and 1.48 m for the longer walks
LongStepMenu ==
  { <<30, 0, 0, "RoomC">>,
    <<0, 30, 0, "RoomB">>,
    <<0, 20, 0, "Hall1">>,
    <<8, 0, 0, "RoomA">> }

\* walks of one step more, which have a point with a point before it and
\* two after it
LongWalks ==
  { Walk(<<RoutePoint(<<0, 0>>, 0, "RoomA")>>, steps, 1) :
      steps \in [1..(MaxSteps + 1) -> LongStepMenu] }

\* the paths handed to generateDirections and calculateRouteStats: none,
\* every walk of at most MaxSteps steps from one of two first points, and
\* the longer walks
Paths ==
  {<<>>} \cup
  { Walk(<<RoutePoint(<<0, 0>>, 0, name)>>, steps, 1) :
      name \in {"RoomA", "Elevator_1"},
      steps \in UNION {[1..n -> StepMenu] : n \in 0..MaxSteps} }
  \cup LongWalks

InitDir ==
  /\ features = <<>>
  /\ startRoom = Named("RoomA")
  /\ endRoom = Named("RoomB")
  /\ targetFloor = {}
  /\ roomGroups = <<>>
  /\ graph = <<>>
  /\ startKey = {}
  /\ endKey = {}
  /\ openSet = <<>>
  /\ closedSet = {}
  /\ cameFrom = <<>>
  /\ gScore = <<>>
  /\ fScore = <<>>
  /\ iterations = 0
  /\ pathKeys = <<>>
  /\ result = "route"
  /\ routePath \in Paths
  /\ pc = "generateDirections"
  /\ loop = NoLoop
  /\ index = 0
  /\ directions = <<>>
  /\ stats = NoStats
  /\ SideIdle

NextDir ==
  \/ GenerateDirections
  \/ DirectionsStep
  \/ DirectionsReturn
  \/ CalculateRouteStats

SpecDir == InitDir /\ [][NextDir]_vars

\* ------------------------------ the room index and the graph at their edges
\* the largest floor number a property holds
MaxFloor == 2

\* a floor property: absent, or a floor number from 0
FloorValues == {{}} \cup {{f} : f \in 0..MaxFloor}

\* a closed ring of five points around q whose vertex mean is q
Quad(q) ==
  [type |-> "Polygon",
   coordinates |-> << << <<q[1] - 600, q[2] - 600>>, <<q[1] + 600, q[2] - 600>>,
                         <<q[1] + 600, q[2] + 600>>, <<q[1], q[2] + 1200>>,
                         <<q[1] - 600, q[2] - 600>> >> >>]

\* a feature of RoomA with every combination of floor properties, beside a
\* second feature of RoomA on floor 1 and RoomB on floor 1
FloorCalls ==
  { << << [properties |-> [name |-> {"RoomA"}, id |-> {}, room_id |-> {},
                           floor |-> fl, nivel |-> nv, level |-> lv],
           geometry |-> Triangle(Pos(0, 0))],
          Feature("RoomA", 1, Quad(Pos(12, 0))),
          Room("RoomB", 1, 6, 8) >>,
       Named("RoomA"), Named("RoomB"), {} >> :
      fl \in FloorValues, nv \in FloorValues, lv \in FloorValues }

\* distances at, below and above the three same-floor thresholds, in
\* thousandths of a degree
PairGaps == {0, 7, 8, 9, 12, 13, 14, 15, 16, 29, 30, 31, 49, 50, 51}

\* two rooms of every class combination on one floor, and a request from one
\* to the other or to itself
PairCalls ==
  UNION { { << << Room(a, 0, 0, 0), Room(b, 0, d, 0) >>, Named(a), Named(to), {} >> :
              to \in {a, b} } :
          a \in {"RoomA", "Hall1", "Corridor1"}, b \in {"RoomB", "Lobby"}, d \in PairGaps }

\* RoomA on floor 0, RoomB on floor 1 and a third room of every kind of name
\* on floor 0, 1 or 2
ConnectorCalls ==
  { << << Room("RoomA", 0, 0, 0), Room(c, fc, 6, 0), Room("RoomB", 1, 6, 8) >>,
       Named("RoomA"), Named("RoomB"), tf >> :
      c \in {"Corridor1", "Lobby", "Hall1", "Lift_1", "Stairs_1", "Elevator_1", "RoomC"},
      fc \in {0, 1, 2}, tf \in {{}, {1}} }

GraphCalls == FloorCalls \cup PairCalls \cup ConnectorCalls

InitGraph ==
  /\ \E c \in GraphCalls :
       /\ features = c[1]
       /\ startRoom = c[2]
       /\ endRoom = c[3]
       /\ targetFloor = c[4]
  /\ Idle

NextGraph ==
  \/ FindRouteCall
  \/ AStarIterate
  \/ FindRouteReturn
  \/ GenerateDirections
  \/ DirectionsStep
  \/ DirectionsReturn
  \/ CalculateRouteStats

SpecGraph == InitGraph /\ [][NextGraph]_vars

\* ------------------------------------------- calculateTurn on all bearings
\* the largest bearing in whole degrees
MaxBearing == 359

\* findRoute and generateDirections are not under way
PipelineOff ==
  /\ features = <<>>
  /\ startRoom = Named("RoomA")
  /\ endRoom = Named("RoomB")
  /\ targetFloor = {}
  /\ roomGroups = <<>>
  /\ graph = <<>>
  /\ startKey = {}
  /\ endKey = {}
  /\ openSet = <<>>
  /\ closedSet = {}
  /\ cameFrom = <<>>
  /\ gScore = <<>>
  /\ fScore = <<>>
  /\ iterations = 0
  /\ pathKeys = <<>>
  /\ result = "pending"
  /\ routePath = <<>>
  /\ pc = "done"
  /\ loop = NoLoop
  /\ index = 0
  /\ directions = <<>>
  /\ stats = NoStats

pipelineVars == <<inputs, pc, indexVars, searchVars, result, routePath, directionVars>>

\* a call of calculateTurn; the bearings are held in hundredths of a degree
CalculateTurn ==
  /\ turn = "pending"
  /\ turn' = calculateTurn(100 * bearing1, 100 * bearing2)
  /\ UNCHANGED <<pipelineVars, bearing1, bearing2, panelVars>>

InitTurn ==
  /\ PipelineOff
  /\ bearing1 \in 0..MaxBearing
  /\ bearing2 \in 0..MaxBearing
  /\ turn = "pending"
  /\ PanelIdle

NextTurn == CalculateTurn

SpecTurn == InitTurn /\ [][NextTurn]_vars

\* ------------------------------------------------------- DirectionsPanel
\* the most directions of a route, and the most pending timeouts
MaxDirections == 4

MaxTimeouts == 2

\* directions.length of a routePath prop: generateDirections returns [] or a
\* start, a destination and what lies between
RouteLengths == {0} \cup 2..MaxDirections

\* the last render returned: `if (!routePath || directions.length === 0)
\* return null`, or directions[currentStep] was there to read .type from
PanelMounted == directionCount = 0 \/ currentStep \in 0..(directionCount - 1)

\* the last render returned the panel with its buttons
PanelShown == directionCount > 0 /\ currentStep \in 0..(directionCount - 1)

\* what the onend of an utterance made by speak closes over
Closure(step) == [currentStep |-> step, length |-> directionCount, autoPlay |-> autoPlay]

\* onend schedules the advance
Advances(u) == u.autoPlay /\ u.currentStep < u.length - 1

\* window.speechSynthesis.cancel(): the utterance being spoken ends with an
\* end or with an error event, as the browser has it; the numbers of pending
\* timeouts that can follow
AfterCancel(u) ==
  {timeouts} \cup
  (IF u /= {} /\ timeouts < MaxTimeouts /\ Advances(TheValue(u)) THEN {timeouts + 1} ELSE {})

\* speakCurrentStep in the render with the given step and switches
SpeakCurrentStep(step, voice, auto) ==
  IF directionCount > 0 /\ step < directionCount /\ voice
  THEN /\ \E t \in AfterCancel(utterance) : timeouts' = t
       /\ utterance' = {[currentStep |-> step, length |-> directionCount, autoPlay |-> auto]}
       /\ isSpeaking' = TRUE
  ELSE UNCHANGED <<utterance, isSpeaking, timeouts>>

\* goToStep: setCurrentStep, stopSpeaking, and the effect on [currentStep,
\* voiceEnabled, autoPlay] of the render that follows
goToStep(stepIndex) ==
  /\ currentStep' = stepIndex
  /\ \E t \in AfterCancel(utterance) : timeouts' = t
  /\ IF stepIndex /= currentStep /\ voiceEnabled /\ autoPlay
     THEN utterance' = {Closure(stepIndex)} /\ isSpeaking' = TRUE
     ELSE utterance' = {} /\ isSpeaking' = FALSE
  /\ UNCHANGED <<voiceEnabled, autoPlay, directionCount>>

nextStep ==
  /\ PanelShown
  /\ currentStep < directionCount - 1
  /\ goToStep(currentStep + 1)
  /\ UNCHANGED <<pipelineVars, turnVars>>

previousStep ==
  /\ PanelShown
  /\ currentStep > 0
  /\ goToStep(currentStep - 1)
  /\ UNCHANGED <<pipelineVars, turnVars>>

\* a click on a step of the list
StepClick ==
  /\ PanelShown
  /\ \E stepIndex \in 0..(directionCount - 1) : goToStep(stepIndex)
  /\ UNCHANGED <<pipelineVars, turnVars>>

\* a click on the button that speaks the current step
SpeakClick ==
  /\ PanelShown
  /\ voiceEnabled
  /\ ~isSpeaking
  /\ SpeakCurrentStep(currentStep, voiceEnabled, autoPlay)
  /\ UNCHANGED <<pipelineVars, turnVars, currentStep, voiceEnabled, autoPlay, directionCount>>

\* the voice checkbox, and the effect of the render that follows
SetVoiceEnabled ==
  /\ PanelShown
  /\ voiceEnabled' = ~voiceEnabled
  /\ IF voiceEnabled' /\ ~isSpeaking /\ autoPlay
     THEN SpeakCurrentStep(currentStep, voiceEnabled', autoPlay)
     ELSE UNCHANGED <<utterance, isSpeaking, timeouts>>
  /\ UNCHANGED <<pipelineVars, turnVars, currentStep, autoPlay, directionCount>>

\* the auto-play checkbox, shown when the voice is on
SetAutoPlay ==
  /\ PanelShown
  /\ voiceEnabled
  /\ autoPlay' = ~autoPlay
  /\ IF ~isSpeaking /\ autoPlay'
     THEN SpeakCurrentStep(currentStep, voiceEnabled, autoPlay')
     ELSE UNCHANGED <<utterance, isSpeaking, timeouts>>
  /\ UNCHANGED <<pipelineVars, turnVars, currentStep, voiceEnabled, directionCount>>

\* utterance.onend: the speech has come to its end
SpeechEnd ==
  /\ PanelMounted
  /\ utterance /= {}
  /\ Advances(TheValue(utterance)) => timeouts < MaxTimeouts
  /\ utterance' = {}
  /\ isSpeaking' = FALSE
  /\ timeouts' = IF Advances(TheValue(utterance)) THEN timeouts + 1 ELSE timeouts
  /\ UNCHANGED <<pipelineVars, turnVars, currentStep, voiceEnabled, autoPlay, directionCount>>

\* the setTimeout callback of onend, one second later: setCurrentStep(prev =>
\* prev + 1), and the effect of the render that follows if it returns
AdvanceTimeout ==
  /\ PanelMounted
  /\ timeouts > 0
  /\ currentStep' = currentStep + 1
  /\ IF voiceEnabled /\ ~isSpeaking /\ autoPlay
     THEN /\ utterance' = IF directionCount > 0 /\ currentStep' < directionCount
                          THEN {Closure(currentStep')} ELSE utterance
          /\ isSpeaking' = (IF directionCount > 0 /\ currentStep' < directionCount
                            THEN TRUE ELSE isSpeaking)
     ELSE UNCHANGED <<utterance, isSpeaking>>
  /\ timeouts' = timeouts - 1
  /\ UNCHANGED <<pipelineVars, turnVars, voiceEnabled, autoPlay, directionCount>>

\* the parent hands the panel another routePath: useMemo computes the
\* directions anew, the state stays
ReplaceRoute ==
  /\ PanelMounted
  /\ \E n \in RouteLengths : directionCount' = n
  /\ UNCHANGED <<pipelineVars, turnVars, currentStep, isSpeaking, voiceEnabled, autoPlay,
                 utterance, timeouts>>

InitPanel ==
  /\ PipelineOff
  /\ TurnIdle
  /\ currentStep = 0
  /\ isSpeaking = FALSE
  /\ voiceEnabled = FALSE
  /\ autoPlay = FALSE
  /\ directionCount \in RouteLengths
  /\ utterance = {}
  /\ timeouts = 0

NextPanel ==
  \/ nextStep
  \/ previousStep
  \/ StepClick
  \/ SpeakClick
  \/ SetVoiceEnabled
  \/ SetAutoPlay
  \/ SpeechEnd
  \/ AdvanceTimeout
  \/ ReplaceRoute

SpecPanel == InitPanel /\ [][NextPanel]_vars

\* ------------------------------------------------------ reference notions
\* the lower-case names of the request
StartName == ToLowerCase(getRoomName(startRoom))

EndName == ToLowerCase(getRoomName(endRoom))

\* findRoute has returned
Returned == result /= "pending"

\* a feature whose geometry read yields undefined
Raises(feature) == ~OuterCoords(feature.geometry).ok

\* the weight of the edge from node u to node v of the graph, {} when there
\* is none
EdgeWeights(g, u, v) ==
  {g[u].neighbors[j].distance :
     j \in {i \in 1..Len(g[u].neighbors) : g[u].neighbors[i].key = g[v].key}}

WeightMatrix(g) == [u \in 1..Len(g) |-> [v \in 1..Len(g) |-> EdgeWeights(g, u, v)]]

\* the cost of a sequence of keys along the edges of the graph
PathCost(g, keys) ==
  SumSeq([j \in 1..(Len(keys) - 1) |->
            TheValue(EdgeWeights(g, NodeIndex(g, keys[j]), NodeIndex(g, keys[j + 1])))])

\* exhaustive least cost: Bellman-Ford rounds over the node indices; d[k] is
\* the least cost found of a path from the source to node k
RECURSIVE LeastCosts(_, _, _)
LeastCosts(w, d, rounds) ==
  IF rounds = 0 THEN d
  ELSE LeastCosts(w,
         [k \in 1..Len(w) |->
            LET Least(all) == CHOOSE m \in all : \A y \in all : m <= y
            IN  Least({d[k]} \cup UNION {{d[u] + x : x \in w[u][k]} :
                                           u \in {y \in 1..Len(w) : d[y] < Infinity}})],
         rounds - 1)

MinCost(g, from, to) ==
  LeastCosts(WeightMatrix(g),
             [k \in 1..Len(g) |-> IF g[k].key = from THEN 0 ELSE Infinity],
             Len(g))[NodeIndex(g, to)]

\* the search has just reconstructed its path
PathFound == pc = "enhance"

\* the points of a route that are rooms, not inserted waypoints
RoomPoints(path) == SelectSeq(path, LAMBDA pt : ~pt.isWaypoint)

NamesOf(path) == [j \in 1..Len(path) |-> path[j].name]

CountType(dirs, type) == Cardinality({j \in 1..Len(dirs) : dirs[j].type = type})

\* the names the navigability filter excludes
ExcludedNames == {"floor", "structure", "void", "exterior"}

\* the features that can stand for a requested room: same name without
\* regard to case, not an excluded name, on the target floor if one is given
Candidates(requested) ==
  {i \in 1..Len(features) :
     /\ ToLowerCase(getRoomName(features[i])) = ToLowerCase(getRoomName(requested))
     /\ ToLowerCase(getRoomName(features[i])) \notin ExcludedNames
     /\ (targetFloor = {} \/ getRoomFloor(features[i]) \in targetFloor)}

NodesNamed(lowerName) ==
  {k \in 1..Len(graph) : ToLowerCase(graph[k].room.name) = lowerName}

NoFeatureRaises == \A i \in 1..Len(features) : ~Raises(features[i])

\* the graph has been constructed
Constructed == Returned /\ StartName /= "" /\ EndName /= "" /\ NoFeatureRaises

\* ---------------------------------------------------------------- claims
\* C1: findRoute returns null, neither throwing nor returning a route, when
\* the start or end feature has no name, and when the constructed graph has
\* no node of the start name or none of the end name, be it that no feature
\* has the name or that the target floor or the navigability filter has
\* excluded every feature that has it.
C1_NullWhenUnresolved ==
  /\ (Returned /\ (StartName = "" \/ EndName = "")) => result = "null"
  /\ (Constructed /\ (NodesNamed(StartName) = {} \/ NodesNamed(EndName) = {}))
       => result = "null"
  /\ (Constructed /\ (Candidates(startRoom) = {} \/ Candidates(endRoom) = {}))
       => result = "null"

\* a request for a room that the feature list has, but not on the target
\* floor or not as a navigable room, has returned null
C1_Witness ==
  /\ Constructed
  /\ result = "null"
  /\ graph /= <<>>
  /\ NodesNamed(StartName) /= {}
  /\ NodesNamed(EndName) = {}
  /\ \E i \in 1..Len(features) : ToLowerCase(getRoomName(features[i])) = EndName

\* C2: whatever the geometry of the features (no coordinate arrays, an empty
\* outer ring, an unrecognised type), findRoute returns a route or null and
\* raises nothing.
C2_RouteOrNull == Returned => result \in {"route", "null"}

NoCorridorNode == \A k \in 1..Len(graph) : ~graph[k].isCorridor

IsRoute(keys) ==
  /\ Len(keys) >= 1
  /\ {keys[1]} = startKey
  /\ {keys[Len(keys)]} = endKey
  /\ \A j \in 1..(Len(keys) - 1) :
       EdgeWeights(graph, NodeIndex(graph, keys[j]), NodeIndex(graph, keys[j + 1])) /= {}

LeastCost == MinCost(graph, TheValue(startKey), TheValue(endKey))

\* C3: on a graph none of whose rooms is a corridor, the path aStar returns
\* runs from the start node to the end node along edges of the graph and its
\* total weight is the least total weight of any such path.
C3_RegularPathIsLeastCost ==
  (PathFound /\ NoCorridorNode) =>
     IsRoute(pathKeys) /\ PathCost(graph, pathKeys) = LeastCost

\* a path over an intermediate room and a floor change has been returned
\* although the graph offers another way round
C3_Witness ==
  /\ PathFound
  /\ NoCorridorNode
  /\ Len(pathKeys) >= 3
  /\ \E k \in 1..Len(graph) :
       /\ \A j \in 1..Len(pathKeys) : pathKeys[j] /= graph[k].key
       /\ EdgeWeights(graph, NodeIndex(graph, pathKeys[1]), k) /= {}
       /\ EdgeWeights(graph, k, NodeIndex(graph, pathKeys[Len(pathKeys)])) /= {}

\* C4 as claimed: the room sequence of every returned route is a least-cost
\* path of the built graph, corridors and their discounts included.
C4_PathIsLeastCost == PathFound => PathCost(graph, pathKeys) = LeastCost

\* C4: the room sequence of every returned route is a path from the resolved
\* start node to the resolved end node whose total weight is at most 1.25
\* times the least total weight.
C4_PathWithinQuarter ==
  PathFound => IsRoute(pathKeys) /\ 4 * PathCost(graph, pathKeys) <= 5 * LeastCost

\* a route over corridors that costs more than the least-cost path
C4_Witness ==
  /\ PathFound
  /\ ~NoCorridorNode
  /\ PathCost(graph, pathKeys) > LeastCost

CentroidOf(feature) == getCentroid(feature).centroid

\* c lies on the segment from a to b, strictly inside it
StrictlyBetween(a, c, b) ==
  /\ (c[1] - a[1]) * (b[2] - a[2]) = (c[2] - a[2]) * (b[1] - a[1])
  /\ (c[1] - a[1]) * (b[1] - c[1]) + (c[2] - a[2]) * (b[2] - c[2]) > 0

CorridorWords == {"Hall1", "Corridor1", "Lobby"}

\* features[a], features[c], features[b] are the requested start room, a
\* corridor in reach of both and the requested end room, in a row on a floor
\* the request admits
IsCorridorTriple(a, c, b) ==
  /\ {a, c, b} = 1..3
  /\ NoFeatureRaises
  /\ getRoomName(features[a]) = getRoomName(startRoom)
  /\ getRoomName(features[b]) = getRoomName(endRoom)
  /\ getRoomName(features[a]) \in {"RoomA", "RoomB", "RoomC"}
  /\ getRoomName(features[b]) \in {"RoomA", "RoomB", "RoomC"}
  /\ getRoomName(features[a]) /= getRoomName(features[b])
  /\ getRoomName(features[c]) \in CorridorWords
  /\ getRoomFloor(features[a]) = getRoomFloor(features[c])
  /\ getRoomFloor(features[b]) = getRoomFloor(features[c])
  /\ targetFloor \in {{}, {getRoomFloor(features[c])}}
  /\ StrictlyBetween(CentroidOf(features[a]), CentroidOf(features[c]),
                     CentroidOf(features[b]))
  /\ distance(CentroidOf(features[a]), CentroidOf(features[c])) < CorridorRoomThreshold
  /\ distance(CentroidOf(features[c]), CentroidOf(features[b])) < CorridorRoomThreshold

PointAt(feature) ==
  <<getRoomName(feature), getRoomFloor(feature), CentroidOf(feature)>>

PlacesOf(path) == [j \in 1..Len(path) |-> <<path[j].name, path[j].floor, path[j].coords>>]

\* C5: for a regular room A, a corridor C and a regular room B in a row on
\* one floor, C between A and B and in reach of both, findRoute(A, B) returns
\* a route whose points that are not inserted waypoints are A, C and B, in
\* that order.
C5_ThroughTheCorridor ==
  \A a, c, b \in 1..Len(features) :
    (Len(features) = 3 /\ IsCorridorTriple(a, c, b) /\ Returned) =>
       /\ result = "route"
       /\ PlacesOf(RoomPoints(routePath))
            = <<PointAt(features[a]), PointAt(features[c]), PointAt(features[b])>>

\* such a route has been returned where A and B are also in reach of each
\* other, and waypoints have been inserted into it
C5_Witness ==
  /\ Len(features) = 3
  /\ \E a, c, b \in 1..3 :
       /\ IsCorridorTriple(a, c, b)
       /\ distance(CentroidOf(features[a]), CentroidOf(features[b])) < RoomRoomThreshold
  /\ result = "route"
  /\ Len(routePath) > 3

\* RoomA on a floor f, RoomB on floor f + 1 and Elevator_1 on both, nothing
\* else, and the request is from RoomA to RoomB on any floor
ElevatorLayout ==
  /\ Len(features) = 4
  /\ NoFeatureRaises
  /\ \E f \in {0, 1} :
       {<<getRoomName(features[i]), getRoomFloor(features[i])>> : i \in 1..4}
         = {<<"RoomA", f>>, <<"Elevator_1", f>>, <<"Elevator_1", f + 1>>, <<"RoomB", f + 1>>}
  /\ getRoomName(startRoom) = "RoomA"
  /\ getRoomName(endRoom) = "RoomB"
  /\ targetFloor = {}

\* the two Elevator_1 rooms are one above the other
ElevatorStacked ==
  \A i, j \in 1..Len(features) :
    (getRoomName(features[i]) = "Elevator_1" /\ getRoomName(features[j]) = "Elevator_1")
      => CentroidOf(features[i]) = CentroidOf(features[j])

\* RoomA, RoomB and the elevator shaft are at three different places
ElevatorApart ==
  \A i, j \in 1..Len(features) :
    getRoomName(features[i]) /= getRoomName(features[j])
      => CentroidOf(features[i]) /= CentroidOf(features[j])

FloorChanges == SelectSeq(directions, LAMBDA d : d.type = "floor_change")

\* C6: with RoomA on floor f, RoomB on floor f + 1 and Elevator_1 on both
\* floors, one above the other and apart from both rooms, as the only
\* vertical connector, the route of findRoute(RoomA, RoomB) has an Elevator_1
\* point and its directions have exactly one floor change, taken by elevator.
C6_OneElevatorFloorChange ==
  (ElevatorLayout /\ ElevatorStacked /\ ElevatorApart /\ pc = "done") =>
     /\ result = "route"
     /\ \E j \in 1..Len(routePath) : routePath[j].name = "Elevator_1"
     /\ Len(FloorChanges) = 1
     /\ FloorChanges[1].instruction[2] = "elevator"

\* C7: groupRoomsByName partitions the feature list: every feature is a
\* member of exactly one room, once; that room has the feature's name and
\* floor; and the member lists hold nothing but the features of the list.
C7_GroupingPartitions ==
  Constructed =>
    /\ \A i \in 1..Len(features) :
         \E k \in 1..Len(roomGroups) :
           /\ Cardinality({j \in 1..Len(roomGroups[k].features) :
                             roomGroups[k].features[j] = i}) = 1
           /\ roomGroups[k].name = getRoomName(features[i])
           /\ roomGroups[k].floor = getRoomFloor(features[i])
           /\ \A other \in 1..Len(roomGroups) :
                other /= k => ~InSeq(roomGroups[other].features, i)
    /\ \A k \in 1..Len(roomGroups) :
         \A j \in 1..Len(roomGroups[k].features) :
           roomGroups[k].features[j] \in 1..Len(features)
    /\ SumSeq([k \in 1..Len(roomGroups) |-> Len(roomGroups[k].features)]) = Len(features)
    /\ \A k, other \in 1..Len(roomGroups) :
         (roomGroups[k].name = roomGroups[other].name
            /\ roomGroups[k].floor = roomGroups[other].floor) => k = other

\* a list with two features of one room and a room of the same name on
\* another floor has been grouped
C7_Witness ==
  /\ Constructed
  /\ \E k \in 1..Len(roomGroups) : Len(roomGroups[k].features) >= 2
  /\ \E k, other \in 1..Len(roomGroups) :
       /\ roomGroups[k].name = roomGroups[other].name
       /\ roomGroups[k].floor /= roomGroups[other].floor

\* generateDirections has returned
DirectionsReady == pc \in {"calculateRouteStats", "done"}

SingleFloor(path) == \A j \in 1..Len(path) : path[j].floor = path[1].floor

\* a path of three points on one floor whose two segments are at right angles
RightAngle(path) ==
  /\ Len(path) = 3
  /\ SingleFloor(path)
  /\ path[1].coords /= path[2].coords
  /\ path[2].coords /= path[3].coords
  /\ (path[2].coords[1] - path[1].coords[1]) * (path[3].coords[1] - path[2].coords[1])
       + (path[2].coords[2] - path[1].coords[2]) * (path[3].coords[2] - path[2].coords[2])
       = 0

PathLength(path) ==
  SumSeq([j \in 1..(Len(path) - 1) |-> calculateDistance(path[j].coords, path[j + 1].coords)])

Turns == SelectSeq(directions, LAMBDA d : d.type = "turn")

OnePlainTurn == Len(Turns) = 1 /\ Turns[1].turn \in {{"left"}, {"right"}}

\* C8 as claimed: for every path of three points on one floor whose second
\* segment is at 90 degrees to the first, generateDirections returns exactly
\* one turn direction, and it is a plain left or right turn.
C8_OneTurnAtRightAngle == (DirectionsReady /\ RightAngle(routePath)) => OnePlainTurn

\* C8: for such a path longer than 3 metres in all, generateDirections
\* returns exactly one turn direction, a plain left or right turn; for such a
\* path of 3 metres or less it returns no turn direction.
C8_OneTurnWhenLongEnough ==
  (DirectionsReady /\ RightAngle(routePath)) =>
     IF PathLength(routePath) > TurnMinDistance THEN OnePlainTurn ELSE Len(Turns) = 0

\* the directions of a right-angled path longer than 3 metres, off the axes
C8_Witness ==
  /\ DirectionsReady
  /\ RightAngle(routePath)
  /\ PathLength(routePath) > TurnMinDistance
  /\ routePath[1].coords[2] /= routePath[2].coords[2]
  /\ routePath[1].coords[1] /= routePath[2].coords[1]
  /\ Len(Turns) = 1

FloorsOf(path) == {path[j].floor : j \in 1..Len(path)}

StatsRight ==
  /\ stats.floorChanges
       = Cardinality({j \in 1..(Len(routePath) - 1) :
                        routePath[j].floor /= routePath[j + 1].floor})
  /\ {stats.floors[j] : j \in 1..Len(stats.floors)} = FloorsOf(routePath)
  /\ \A j \in 1..(Len(stats.floors) - 1) : stats.floors[j] < stats.floors[j + 1]
  /\ stats.totalDistance = PathLength(routePath)
  /\ stats.estimatedTime.num * 1400
       = stats.estimatedTime.den * (stats.totalDistance + 42000 * stats.floorChanges)

\* C9 as claimed: for every path of at least one point calculateRouteStats
\* returns the number of floor changes, the ascending list of the floors of
\* the path's points and the time totalDistance / 1.4 + 30 x floorChanges.
C9_StatsOfNonEmptyPath == (pc = "done" /\ Len(routePath) >= 1) => StatsRight

\* C9: for every path of at least two points calculateRouteStats returns the
\* number of floor changes, the ascending duplicate-free list of the floors
\* of the path's points and the time totalDistance / 1.4 + 30 x floorChanges.
C9_StatsOfPath == (pc = "done" /\ Len(routePath) >= 2) => StatsRight

\* the statistics of a path that leaves its first floor at once and comes
\* back to it
C9_Witness ==
  /\ pc = "done"
  /\ Len(routePath) >= 3
  /\ routePath[1].floor /= routePath[2].floor
  /\ routePath[1].floor = routePath[Len(routePath)].floor
  /\ stats.floorChanges = 2
  /\ Len(stats.floors) = 2

DirectionTypes == {"start", "turn", "floor_change", "waypoint", "destination"}

\* C10: for every path of at least two points the list generateDirections
\* returns begins with a start direction at the first point, ends with a
\* destination direction at the last point, has one start and one
\* destination, and has no direction of a type outside the five.
C10_StartAndDestination ==
  (DirectionsReady /\ Len(routePath) >= 2) =>
     /\ Len(directions) >= 2
     /\ directions[1].type = "start"
     /\ directions[1].coords = routePath[1].coords
     /\ directions[1].location = routePath[1].name
     /\ directions[1].floor = routePath[1].floor
     /\ directions[Len(directions)].type = "destination"
     /\ directions[Len(directions)].coords = routePath[Len(routePath)].coords
     /\ directions[Len(directions)].location = routePath[Len(routePath)].name
     /\ directions[Len(directions)].floor = routePath[Len(routePath)].floor
     /\ CountType(directions, "start") = 1
     /\ CountType(directions, "destination") = 1
     /\ \A j \in 1..Len(directions) : directions[j].type \in DirectionTypes

\* a list of directions with a waypoint, a turn and a floor change between
\* its start and its destination
C10_Witness ==
  /\ DirectionsReady
  /\ Len(routePath) >= 2
  /\ CountType(directions, "waypoint") >= 1
  /\ CountType(directions, "turn") >= 1
  /\ CountType(directions, "floor_change") >= 1

\* a pass of the for loop of generateDirections is about to run
InLoop == pc = "directions" /\ index <= Len(routePath)

LastOf(seq) == seq[Len(seq)]

\* what a loop pass does about the floors of the pair it looks at
FloorChangeStep ==
  IF routePath[index].floor /= routePath[index - 1].floor
  THEN /\ loop'.directions = Append(loop.directions, LastOf(loop'.directions))
       /\ LastOf(loop'.directions).type = "floor_change"
       /\ LastOf(loop'.directions).floor = routePath[index - 1].floor
       /\ LastOf(loop'.directions).targetFloor = {routePath[index].floor}
       /\ LastOf(loop'.directions).coords = routePath[index - 1].coords
       /\ LastOf(loop'.directions).instruction[3]
            = (IF routePath[index].floor > routePath[index - 1].floor THEN "up" ELSE "down")
       /\ loop'.previousBearing = {}
       /\ loop'.segmentDistance = 0
  ELSE /\ CountType(loop'.directions, "floor_change")
            = CountType(loop.directions, "floor_change")
       /\ (index > 2 /\ routePath[index - 1].floor /= routePath[index - 2].floor)
            => CountType(loop'.directions, "turn") = CountType(loop.directions, "turn")

\* C11: a pass over a pair of points on different floors adds one
\* floor_change direction and nothing else, saying up exactly when the floor
\* number grows, and resets the bearing and the segment distance; a pass
\* over a pair on one floor adds no floor_change, and no turn when the pair
\* before it changed floor; in the end the floor_change directions are as
\* many as the floorChanges of calculateRouteStats.
C11_FloorChangePerPair ==
  [][ /\ InLoop => FloorChangeStep
      /\ pc' = "done" => CountType(directions', "floor_change") = stats'.floorChanges
    ]_vars

\* a route that went up and down, and bent on the floor it came to
C11_Witness ==
  /\ pc = "done"
  /\ Len(routePath) = 4
  /\ routePath[2].floor > routePath[1].floor
  /\ routePath[3].floor = routePath[2].floor
  /\ routePath[3].coords /= routePath[2].coords
  /\ routePath[4].floor < routePath[3].floor
  /\ CountType(directions, "floor_change") = 2
  /\ stats.floorChanges = 2

\* aStar has just returned: a path, or null for two keys of the graph
AStarReturned ==
  \/ PathFound
  \/ pc = "done" /\ result = "null" /\ startKey /= {} /\ endKey /= {}

\* the end node can be reached from the start node along neighbor lists
Reachable == MinCost(graph, TheValue(startKey), TheValue(endKey)) < Infinity

\* C12: for two keys of the graph, the same key twice and keys of coinciding
\* centroids included, aStar returns null exactly when the end node cannot
\* be reached from the start node, and it returns null only with its open
\* set exhausted.
C12_NullIffUnreachable ==
  AStarReturned =>
    /\ (result = "null") <=> ~Reachable
    /\ result = "null" => openSet = <<>>

\* a room the graph is to hold: navigable, and on the target floor if one
\* is given
Eligible(room) ==
  /\ ToLowerCase(room.name) \notin ExcludedNames
  /\ (targetFloor = {} \/ room.floor \in targetFloor)

\* C13: the graph has one node for each navigable room on the target floor
\* (on any floor when none is given) and no other node, and every neighbor
\* entry names a node of the graph; so every point of a route for target
\* floor F is on floor F and no point of a route is a non-navigable room.
C13_GraphOfEligibleRooms ==
  Constructed =>
    /\ \A r \in 1..Len(roomGroups) :
         Cardinality({k \in 1..Len(graph) : graph[k].room = roomGroups[r]})
           = (IF Eligible(roomGroups[r]) THEN 1 ELSE 0)
    /\ \A k \in 1..Len(graph) :
         /\ \E r \in 1..Len(roomGroups) : graph[k].room = roomGroups[r]
         /\ graph[k].key = <<graph[k].room.name, graph[k].room.floor>>
         /\ \A j \in 1..Len(graph[k].neighbors) :
              \E n \in 1..Len(graph) :
                /\ graph[n].key = graph[k].neighbors[j].key
                /\ graph[n].room.name = graph[k].neighbors[j].name
                /\ graph[n].room.floor = graph[k].neighbors[j].floor
    /\ result = "route" =>
         \A j \in 1..Len(routePath) :
           /\ targetFloor /= {} => routePath[j].floor \in targetFloor
           /\ ToLowerCase(routePath[j].name) \notin ExcludedNames

\* a route on the target floor through a list that has rooms the graph
\* leaves out
C13_Witness ==
  /\ Constructed
  /\ result = "route"
  /\ targetFloor /= {}
  /\ Len(routePath) >= 2
  /\ Len(graph) < Len(roomGroups)

\* a name of a stairwell or an elevator
IsStairsOrElevatorName(name) ==
  \E word \in {"stair", "escada", "elevador", "elevator", "lift"} :
    Includes(ToLowerCase(name), word)

\* C14: in a graph built for no target floor, an edge between rooms on
\* different floors joins floors that differ by exactly 1, has an endpoint
\* whose name is that of a stairwell or an elevator, and weighs twice the
\* distance of the two centroids.
C14_CrossFloorEdges ==
  (Constructed /\ targetFloor = {}) =>
    \A k \in 1..Len(graph) :
      \A j \in 1..Len(graph[k].neighbors) :
        graph[k].neighbors[j].floor /= graph[k].room.floor =>
          /\ Abs(graph[k].neighbors[j].floor - graph[k].room.floor) = 1
          /\ \/ IsStairsOrElevatorName(graph[k].room.name)
             \/ IsStairsOrElevatorName(graph[k].neighbors[j].name)
          /\ \E n \in 1..Len(graph) :
               /\ graph[n].key = graph[k].neighbors[j].key
               /\ graph[k].neighbors[j].distance
                    = 20 * distance(graph[k].centroid, graph[n].centroid)

\* the neighbor entries of node k that name node n
EntriesFor(k, n) ==
  {j \in 1..Len(graph[k].neighbors) : graph[k].neighbors[j].key = graph[n].key}

\* the threshold and ten times the weight factor of a pair of classes:
\* 0.05 and 0.8, 0.03 and 0.9, 0.015 and 1.2
ClassThreshold(c1, c2) == IF c1 /\ c2 THEN 30000 ELSE IF c1 \/ c2 THEN 18000 ELSE 9000

ClassFactor(c1, c2) == IF c1 /\ c2 THEN 8 ELSE IF c1 \/ c2 THEN 9 ELSE 12

\* C15: two different rooms of the graph on one floor whose centroids are
\* d > 0 apart are neighbors exactly when d is below the threshold of their
\* classes, 0.05 for two corridors, 0.03 for a corridor and a regular room,
\* 0.015 for two regular rooms, and the edge then weighs d x 0.8, d x 0.9,
\* d x 1.2.
C15_SameFloorEdges ==
  Constructed =>
    \A k, n \in 1..Len(graph) :
      (k /= n /\ graph[k].room.floor = graph[n].room.floor
         /\ graph[k].centroid /= graph[n].centroid) =>
        IF distance(graph[k].centroid, graph[n].centroid)
             < ClassThreshold(isCorridor(graph[k].room.name), isCorridor(graph[n].room.name))
        THEN /\ Cardinality(EntriesFor(k, n)) = 1
             /\ \A j \in EntriesFor(k, n) :
                  graph[k].neighbors[j].distance
                    = distance(graph[k].centroid, graph[n].centroid)
                        * ClassFactor(isCorridor(graph[k].room.name),
                                      isCorridor(graph[n].room.name))
        ELSE EntriesFor(k, n) = {}

\* two corridors just inside their threshold are neighbors
C15_Witness ==
  /\ Constructed
  /\ \E k, n \in 1..Len(graph) :
       /\ graph[k].isCorridor
       /\ graph[n].isCorridor
       /\ distance(graph[k].centroid, graph[n].centroid) = 29400
       /\ EntriesFor(k, n) /= {}

\* the first present value of floor, level and nivel, 0 when none is present
FirstPresentFloor(properties) ==
  IF properties.floor /= {} THEN TheValue(properties.floor)
  ELSE IF properties.level /= {} THEN TheValue(properties.level)
  ELSE IF properties.nivel /= {} THEN TheValue(properties.nivel)
  ELSE 0

\* C16: every feature is a member of a room of the index whose floor is the
\* first present value of the feature's floor, level and nivel properties, in
\* that order and with 0 counted as present, and 0 when none is present.
C16_FirstPresentFloor ==
  Constructed =>
    \A i \in 1..Len(features) :
      \E k \in 1..Len(roomGroups) :
        /\ \E j \in 1..Len(roomGroups[k].features) : roomGroups[k].features[j] = i
        /\ roomGroups[k].floor = FirstPresentFloor(features[i].properties)

\* the coordinate list read from member j of room k
RingOf(k, j) == OuterCoords(features[roomGroups[k].features[j]].geometry).coords

\* all vertices of the members of room k
VerticesOf(k) == Flatten([j \in 1..Len(roomGroups[k].features) |-> RingOf(k, j)])

\* the vertex mean of member j of room k, [0, 0] for a ring without vertices
MemberCentroid(k, j) ==
  IF RingOf(k, j) = <<>> THEN <<0, 0>>
  ELSE << Quot(SumSeq([i \in 1..Len(RingOf(k, j)) |-> RingOf(k, j)[i][1]]), Len(RingOf(k, j))),
          Quot(SumSeq([i \in 1..Len(RingOf(k, j)) |-> RingOf(k, j)[i][2]]), Len(RingOf(k, j))) >>

\* the members of room k have rings of one length, and that is not 0
EvenMembers(k) ==
  \A j \in 1..Len(roomGroups[k].features) :
    Len(RingOf(k, j)) = Len(RingOf(k, 1)) /\ Len(RingOf(k, j)) > 0

\* C17 as stated: the centroid of every room of the index is the mean of all
\* vertices of its member features, each vertex weighing the same.
C17_MeanOfAllVertices ==
  Constructed =>
    \A k \in 1..Len(roomGroups) :
      VerticesOf(k) /= <<>> =>
        /\ Len(VerticesOf(k)) * roomGroups[k].centroid[1]
             = SumSeq([i \in 1..Len(VerticesOf(k)) |-> VerticesOf(k)[i][1]])
        /\ Len(VerticesOf(k)) * roomGroups[k].centroid[2]
             = SumSeq([i \in 1..Len(VerticesOf(k)) |-> VerticesOf(k)[i][2]])

\* C17 amended: the centroid of every room of the index is the mean of its
\* member features' centroids, each member weighing the same whatever the
\* number of its vertices, where a member's centroid is the mean of the
\* vertices of its ring and [0, 0] for a ring without vertices; it is the
\* mean of all vertices when the members' rings have one length.
C17_MeanOfMemberCentroids ==
  Constructed =>
    \A k \in 1..Len(roomGroups) :
      /\ Len(roomGroups[k].features) * roomGroups[k].centroid[1]
           = SumSeq([j \in 1..Len(roomGroups[k].features) |-> MemberCentroid(k, j)[1]])
      /\ Len(roomGroups[k].features) * roomGroups[k].centroid[2]
           = SumSeq([j \in 1..Len(roomGroups[k].features) |-> MemberCentroid(k, j)[2]])
      /\ EvenMembers(k) =>
           /\ Len(VerticesOf(k)) * roomGroups[k].centroid[1]
                = SumSeq([i \in 1..Len(VerticesOf(k)) |-> VerticesOf(k)[i][1]])
           /\ Len(VerticesOf(k)) * roomGroups[k].centroid[2]
                = SumSeq([i \in 1..Len(VerticesOf(k)) |-> VerticesOf(k)[i][2]])

\* a room of a four-vertex ring around [0, 0] and a five-vertex ring around
\* [0.012, 0] has its centroid at [0.006, 0]
C17_Witness ==
  /\ Constructed
  /\ \E k \in 1..Len(roomGroups) :
       /\ Len(roomGroups[k].features) = 2
       /\ Len(RingOf(k, 1)) = 4
       /\ Len(RingOf(k, 2)) = 5
       /\ roomGroups[k].centroid = <<3600, 0>>

\* the first and the last node of a name in the iteration order of the graph
FirstNamed(lowerName) ==
  CHOOSE k \in NodesNamed(lowerName) : \A m \in NodesNamed(lowerName) : k <= m

LastNamed(lowerName) ==
  CHOOSE k \in NodesNamed(lowerName) : \A m \in NodesNamed(lowerName) : k >= m

\* both names have a node in the graph
BothNamed == Constructed /\ NodesNamed(StartName) /= {} /\ NodesNamed(EndName) /= {}

\* a returned route runs from node u to node v of the graph
RouteRuns(u, v) ==
  result = "route" =>
    /\ <<routePath[1].name, routePath[1].floor>> = graph[u].key
    /\ <<routePath[Len(routePath)].name, routePath[Len(routePath)].floor>> = graph[v].key

\* C18 as stated: each name resolves to the first node of that name in the
\* iteration order of the graph, and a returned route starts and ends there.
C18_FirstMatchWins ==
  BothNamed =>
    /\ startKey = {graph[FirstNamed(StartName)].key}
    /\ endKey = {graph[FirstNamed(EndName)].key}
    /\ RouteRuns(FirstNamed(StartName), FirstNamed(EndName))

\* C18 amended: each name resolves to the last node of that name in the
\* iteration order of the graph, and a returned route starts and ends there.
C18_LastMatchWins ==
  BothNamed =>
    /\ startKey = {graph[LastNamed(StartName)].key}
    /\ endKey = {graph[LastNamed(EndName)].key}
    /\ RouteRuns(LastNamed(StartName), LastNamed(EndName))

\* a route to a name that two nodes have
C18_Witness ==
  /\ BothNamed
  /\ result = "route"
  /\ Cardinality(NodesNamed(EndName)) >= 2
  /\ endKey = {graph[LastNamed(EndName)].key}

\* C19: every floor-change direction of a route that findRoute has returned
\* names one means of changing floor, stairs or elevator, and it is stairs
\* exactly when the departure point of the pair has the name of a stairwell.
C19_StairsOrElevator ==
  (pc = "done" /\ result = "route") =>
    \A j \in 1..Len(directions) :
      directions[j].type = "floor_change" =>
        /\ directions[j].instruction[2] \in {"stairs", "elevator"}
        /\ directions[j].instruction[2] = "stairs"
             <=> isStairwell(directions[j].location)

\* the distance accumulated since the last instruction, the pair that the
\* loop pass looks at included
Accumulated ==
  loop.segmentDistance
    + calculateDistance(routePath[index - 1].coords, routePath[index].coords)

\* the loop pass looks at a pair that bends: a previous bearing is recorded
\* and the change to the bearing of the pair is not classified straight
Bends ==
  /\ loop.previousBearing /= {}
  /\ calculateTurn(TheValue(loop.previousBearing),
                   calculateBearing(routePath[index - 1].coords, routePath[index].coords))
       /= "straight"

\* the loop pass emits a turn
TurnEmitted ==
  \E j \in 1..Len(loop'.directions) :
    /\ j > Len(loop.directions)
    /\ loop'.directions[j].type = "turn"

\* C20: a loop pass over a pair of points on one floor emits a turn exactly
\* when a previous bearing is recorded, the change of bearing is not
\* classified straight and the distance accumulated since the last
\* instruction exceeds 3 m; the turn carries that distance, and the pass that
\* emits it leaves the accumulated distance at 0.
C20_TurnWhenBentAndFar ==
  [][ (InLoop /\ routePath[index].floor = routePath[index - 1].floor) =>
        /\ TurnEmitted <=> (Bends /\ Accumulated > 3000)
        /\ TurnEmitted =>
             /\ loop'.directions[Len(loop.directions) + 1].type = "turn"
             /\ loop'.directions[Len(loop.directions) + 1].distance = Accumulated
             /\ loop'.segmentDistance = 0
    ]_vars

\* a turn after three steps of 1.48 m, none of which is 3 m long, and a bend
\* after two such steps that got no turn
C20_Witness ==
  /\ pc = "done"
  /\ Len(routePath) = 4
  /\ \E j \in 1..Len(directions) :
       directions[j].type = "turn" /\ directions[j].distance = 4440
  /\ routePath[2].coords[2] = routePath[1].coords[2]
  /\ routePath[3].coords[1] = routePath[2].coords[1]
  /\ routePath[3].coords[2] /= routePath[2].coords[2]

\* the signed change from bearing1 to bearing2 in whole degrees, brought
\* into -180..179 (a half turn counts as -180)
SignedChange == ((bearing2 - bearing1 + 540) % 360) - 180

\* the label of a turn to the side the signed change is on
Sided(label) == IF SignedChange > 0 THEN label \o " right" ELSE label \o " left"

PlainSided == IF SignedChange > 0 THEN "right" ELSE "left"

CalculateTurnReturned == turn /= "pending"

WaypointEmitted ==
  /\ Len(loop'.directions) > Len(loop.directions)
  /\ LastOf(loop'.directions).type = "waypoint"
  /\ LastOf(loop'.directions).instruction = <<"Pass through", routePath[index].name>>

\* C22: a loop pass over a pair of points on one floor whose second point is
\* not the final destination and has the name of a room that is no corridor
\* emits the waypoint 'Pass through <name>' and leaves the accumulated
\* distance at 0 when the distance accumulated since the last instruction (0
\* if the pass has just emitted a turn) exceeds 5 m.
C22_PassThroughRooms ==
  [][ ( /\ InLoop
        /\ routePath[index].floor = routePath[index - 1].floor
        /\ index < Len(routePath)
        /\ ~isCorridorName(routePath[index].name)
        /\ ~TurnEmitted
        /\ Accumulated > 5000 ) =>
        /\ WaypointEmitted
        /\ loop'.segmentDistance = 0
    ]_vars

\* addCorridorWaypoints has just returned the route
Enhanced == pc = "generateDirections" /\ result = "route"

\* the rooms aStar has returned, as findRoute hands them to the enhancer
RawPath == PathCoords(graph, pathKeys)

\* the place in the route of the k-th point that is not a waypoint
RoomPlace(k) ==
  CHOOSE j \in 1..Len(routePath) :
    /\ ~routePath[j].isWaypoint
    /\ Cardinality({m \in 1..j : ~routePath[m].isWaypoint}) = k

\* the points of the route between the k-th and the next room
Between2(k) == SubSeq(routePath, RoomPlace(k) + 1, RoomPlace(k + 1) - 1)

\* what may stand between rooms a and b of the raw path, d apart
InsertedRight(a, b, d, ins) ==
  /\ \A j \in 1..Len(ins) : ins[j].isWaypoint /\ ins[j].floor = a.floor
  /\ d <= 4800 => ins = <<>>
  /\ (d > 4800 /\ isCorridor(a.name) /= isCorridor(b.name)) => Len(ins) <= 1
  /\ (d > 4800 /\ d <= 9000 /\ isCorridor(a.name) /\ isCorridor(b.name)) => ins = <<>>
  /\ (d > 9000 /\ isCorridor(a.name) /\ isCorridor(b.name)) =>
       /\ Len(ins) >= 1
       /\ Len(ins) <= 5
  /\ (d > 4800 /\ d <= 7200 /\ ~isCorridor(a.name) /\ ~isCorridor(b.name)) => ins = <<>>
  /\ (d > 7200 /\ ~isCorridor(a.name) /\ ~isCorridor(b.name)) =>
       /\ Len(ins) = 1
       /\ ins[1].name = "transition"
       /\ 2 * ins[1].coords[1] = a.coords[1] + b.coords[1]
       /\ 2 * ins[1].coords[2] = a.coords[2] + b.coords[2]

\* C23: the route keeps the rooms of the raw path, unchanged and in order,
\* as its points that are no waypoints, starts and ends with a room, and
\* between two consecutive rooms has only waypoints: none when the centroids
\* are at most 0.008 apart, at most one for a corridor and a regular room,
\* 1 to 5 for two corridors more than 0.015 apart, and the one midpoint
\* named transition for two regular rooms more than 0.012 apart.
C23_WaypointsBetweenRooms ==
  Enhanced =>
    /\ RoomPoints(routePath) = RawPath
    /\ ~routePath[1].isWaypoint
    /\ ~routePath[Len(routePath)].isWaypoint
    /\ \A k \in 1..(Len(RawPath) - 1) :
         InsertedRight(RawPath[k], RawPath[k + 1],
                       distance(RawPath[k].coords, RawPath[k + 1].coords), Between2(k))

\* two corridors 0.03 apart with three waypoints between them
C23_Witness ==
  /\ Enhanced
  /\ Len(RawPath) = 2
  /\ isCorridor(RawPath[1].name)
  /\ isCorridor(RawPath[2].name)
  /\ distance(RawPath[1].coords, RawPath[2].coords) = 18000
  /\ Len(routePath) = 5

\* the keys of the nodes of the graph
GraphKeys == {graph[k].key : k \in 1..Len(graph)}

\* C24: the graph is symmetric and has no self-loop: node a lists node b as
\* often and with the same weights as b lists a, at most once, no node lists
\* itself, every listed key is a node, every weight is above 0, and rooms
\* whose centroids coincide are not connected.
C24_SymmetricGraph ==
  Constructed =>
    /\ \A k, n \in 1..Len(graph) :
         /\ EdgeWeights(graph, k, n) = EdgeWeights(graph, n, k)
         /\ Cardinality(EntriesFor(k, n)) = Cardinality(EntriesFor(n, k))
         /\ Cardinality(EntriesFor(k, n)) <= 1
         /\ graph[k].centroid = graph[n].centroid => EntriesFor(k, n) = {}
    /\ \A k \in 1..Len(graph) :
         /\ EntriesFor(k, k) = {}
         /\ \A j \in 1..Len(graph[k].neighbors) :
              /\ graph[k].neighbors[j].key \in GraphKeys
              /\ graph[k].neighbors[j].distance > 0

\* a corridor and a regular room that list each other
C24_Witness ==
  /\ Constructed
  /\ \E k, n \in 1..Len(graph) :
       /\ graph[k].isCorridor
       /\ ~graph[n].isCorridor
       /\ EntriesFor(k, n) /= {}
       /\ EntriesFor(n, k) /= {}

\* C25: the path aStar returns begins with startKey, ends with endKey, goes
\* from each key to the next along an edge of the graph (the next key is in
\* the neighbor list of the node of the key), and has no key twice.
C25_PathAlongEdges ==
  PathFound =>
    /\ Len(pathKeys) >= 1
    /\ pathKeys[1] = TheValue(startKey)
    /\ pathKeys[Len(pathKeys)] = TheValue(endKey)
    /\ \A j \in 1..(Len(pathKeys) - 1) :
         \E k \in 1..Len(graph) :
           /\ graph[k].key = pathKeys[j]
           /\ \E n \in 1..Len(graph[k].neighbors) :
                graph[k].neighbors[n].key = pathKeys[j + 1]
    /\ \A i, j \in 1..Len(pathKeys) : pathKeys[i] = pathKeys[j] => i = j

\* a path through two rooms between its ends
C25_Witness ==
  /\ PathFound
  /\ Len(pathKeys) >= 4

\* the keys of the open set
OpenKeys(open) == {open[j] : j \in 1..Len(open)}

\* aStar's loop is under way
InAStar == pc = "aStar"

\* the open and the closed set in the loop: disjoint sets of nodes, the closed
\* one with one node for each pass made
AStarSets ==
  InAStar =>
    /\ OpenKeys(openSet) \cap closedSet = {}
    /\ OpenKeys(openSet) \cup closedSet \subseteq GraphKeys
    /\ Cardinality(OpenKeys(openSet)) = Len(openSet)
    /\ Cardinality(closedSet) = iterations
    /\ iterations <= Len(graph)

\* a pass of the loop that does not return moves one node from the open to
\* the closed set and takes no other node from either
AStarPass ==
  (InAStar /\ pc' = "aStar") =>
    \E key \in OpenKeys(openSet) :
      /\ key \notin closedSet
      /\ closedSet' = closedSet \cup {key}
      /\ OpenKeys(openSet) \ {key} \subseteq OpenKeys(openSet')
      /\ OpenKeys(openSet') \cap closedSet' = {}
      /\ Len(graph) - Cardinality(closedSet') < Len(graph) - Cardinality(closedSet)

\* a pass that returns gives a path or null, after no more passes than the
\* graph has nodes and one
AStarReturn ==
  (InAStar /\ pc' /= "aStar") =>
    /\ pc' = "enhance" \/ result' = "null"
    /\ iterations' <= Len(graph) + 1

\* C26: in aStar's loop the open and the closed set are disjoint; every pass
\* that does not return moves exactly one node from the open to the closed
\* set and puts no closed node back, so that the number of nodes not yet
\* closed falls with every pass and the loop returns a path or null after at
\* most as many expansions as the graph has nodes.
C26_AStarTerminates == [](AStarSets) /\ [][AStarPass /\ AStarReturn]_vars

\* three nodes are closed and the search goes on
C26_Witness ==
  /\ InAStar
  /\ Cardinality(closedSet) >= 3
  /\ Len(openSet) >= 1

\* the consecutive pairs of a path that change floor
FloorChangingPairs(path) == {j \in 1..(Len(path) - 1) : path[j].floor /= path[j + 1].floor}

\* C27: in a route findRoute returns consecutive points are on one floor or
\* on floors that differ by 1, every inserted point is on the floor of the
\* point before it and so of the room before it, and the route changes floor
\* as often as the raw path of rooms.
C27_EnhancerKeepsFloors ==
  Enhanced =>
    /\ \A j \in 1..(Len(routePath) - 1) :
         Abs(routePath[j + 1].floor - routePath[j].floor) <= 1
    /\ \A j \in 2..Len(routePath) :
         routePath[j].isWaypoint => routePath[j].floor = routePath[j - 1].floor
    /\ Cardinality(FloorChangingPairs(routePath)) = Cardinality(FloorChangingPairs(RawPath))

\* a point inserted between two rooms on different floors
C27_Witness ==
  /\ Enhanced
  /\ \E j \in 2..(Len(routePath) - 1) :
       /\ routePath[j].isWaypoint
       /\ routePath[j + 1].floor /= routePath[j].floor
       /\ routePath[j - 1].floor = routePath[j].floor

\* generateDirections and calculateRouteStats have returned
StatsReady == pc = "done" /\ result = "route"

\* C28: for a path of at least 2 points the cumulativeDistance of the
\* directions never falls from one element to the next, the distance fields
\* add up to the cumulativeDistance of the destination element, and that is
\* the totalDistance of calculateRouteStats, the length of the path.
C28_DistancesAddUp ==
  (StatsReady /\ Len(routePath) >= 2) =>
    /\ \A j \in 1..(Len(directions) - 1) :
         directions[j].cumulativeDistance <= directions[j + 1].cumulativeDistance
    /\ LastOf(directions).type = "destination"
    /\ SumSeq([j \in 1..Len(directions) |-> directions[j].distance])
         = LastOf(directions).cumulativeDistance
    /\ LastOf(directions).cumulativeDistance = stats.totalDistance
    /\ stats.totalDistance = PathLength(routePath)

\* a path with a floor change and a turn on the way, and a length
C28_Witness ==
  /\ StatsReady
  /\ Len(routePath) = 4
  /\ CountType(directions, "floor_change") >= 1
  /\ CountType(directions, "turn") >= 1
  /\ stats.totalDistance > 10000
  /\ \E j \in 2..(Len(directions) - 1) : directions[j].distance > 0

\* the directions are numbered from 0 in the order of the list
Numbered(dirs) == \A j \in 1..Len(dirs) : dirs[j].id = j - 1

\* a loop pass adds at most one direction, and the floor change alone to a
\* pair that changes floor
OnePerPoint ==
  InLoop =>
    /\ \/ loop'.directions = loop.directions
       \/ loop'.directions = Append(loop.directions, LastOf(loop'.directions))
    /\ routePath[index].floor /= routePath[index - 1].floor =>
         /\ Len(loop'.directions) = Len(loop.directions) + 1
         /\ LastOf(loop'.directions).type = "floor_change"
    /\ Numbered(loop'.directions)

\* the returned list of a path of n >= 2 points: 2 to n + 1 directions,
\* numbered from 0
SizedAndNumbered ==
  (DirectionsReady /\ Len(routePath) >= 2) =>
    /\ Len(directions) >= 2
    /\ Len(directions) <= Len(routePath) + 1
    /\ Numbered(directions)

\* C29: every pass of the loop of generateDirections adds at most one
\* direction (never a turn and a waypoint for one point, and only the
\* floor_change for a pair that changes floor), so that a path of n >= 2
\* points gets 2 to n + 1 directions; the id of each is its place in the
\* list, counted from 0.
C29_OneDirectionPerPoint == [](SizedAndNumbered) /\ [][OnePerPoint]_vars

\* a turn at a room 5.55 m after the last instruction, with two points to
\* come: the turn is all the point gets
C29_Witness ==
  /\ DirectionsReady
  /\ Len(routePath) = 5
  /\ ~isCorridorName(routePath[3].name)
  /\ \E j \in 1..Len(directions) :
       /\ directions[j].type = "turn"
       /\ directions[j].coords = routePath[3].coords
       /\ directions[j].distance > 5000
  /\ \A j \in 1..Len(directions) :
       directions[j].type = "waypoint" => directions[j].coords /= routePath[3].coords

\* C30: whenever the panel has directions to show, the index of the current
\* step is one of 0 .. directions.length - 1, whatever the order of the
\* clicks, the ends of speeches, the delayed advances and the replacements
\* of the route.
C30_StepIndexInRange ==
  directionCount > 0 => currentStep \in 0..(directionCount - 1)

====
